---- MODULE Spec2Model ----
(***************************************************************************)
(* Model of the vic port-layer lifecycle engine:                           *)
(*   lib/portlayer/exec/container.go  (Container cache entry, state        *)
(*       machine, WaitForState, Refresh, start/stop, Commit)               *)
(*   lib/apiservers/engine/backends/container.go  (containerStart,         *)
(*       containerStop, cleanupPortBindings, mapPorts, unmapPorts)         *)
(* A flow is one inbound request.  Commit is split at every infrastructure *)
(* round trip: the step that issues a call and the step that receives its  *)
(* result are separate actions.                                            *)
(***************************************************************************)
EXTENDS Integers, Sequences, FiniteSets, TLC

VARIABLES
    vms,              \* the infrastructure: one VM per container ID
    cont,             \* exec.Containers: the port layer's container cache
    fl,               \* per flow: its Handle and its position in Commit
    chans,            \* per state-event channel: how often it was closed
    subs,             \* the channels WaitForState has handed out
    bk,               \* per flow: its position in containerStart/Stop
    nat,              \* portMapper: the NAT rules installed
    containerByPort,  \* host port -> container ID
    persona,          \* cache.ContainerCache(): the API server's containers
    bound,            \* network scopes: the containers bound to a network
    allocated,        \* portallocator: the host ports handed out
    endpoints,        \* network: the Endpoints and the maps they point to
    observed,         \* a containerBase and the Container built from it
    create            \* ContainerCreate: the request and how it went

apiVars == <<bk, nat, containerByPort, persona, bound, allocated>>

backendVars == <<bk, nat, containerByPort, persona, bound, allocated,
                 endpoints, observed, create>>

vars == <<vms, cont, fl, chans, subs, bk, nat, containerByPort, persona, bound,
          allocated, endpoints, observed, create>>

(* ------------------------------ bounds --------------------------------- *)
MaxCV == 2
MaxAttempts == 2
MaxChans == 2
MaxAllocs == 3
MaxMade == 2
MaxSessions == 3
MaxBindings == 2

HostPorts == {8083, 8084}

(* The ports the allocator hands out, and the HostPort of a binding that   *)
(* names none.                                                             *)
EphemeralPorts == 1..MaxAllocs
Unspecified == 0

Containers == {"c1", "c2"}
Flows == {1, 2}

(* ------------------------------ State ---------------------------------- *)
StateUnknown == "Unknown"
StateStarting == "Starting"
StateRunning == "Running"
StateStopping == "Stopping"
StateStopped == "Stopped"
StateSuspending == "Suspending"
StateSuspended == "Suspended"
StateCreated == "Created"
StateCreating == "Creating"
StateRemoving == "Removing"
StateRemoved == "Removed"

States == {StateUnknown, StateStarting, StateRunning, StateStopping,
           StateStopped, StateSuspending, StateSuspended, StateCreated,
           StateCreating, StateRemoving, StateRemoved}

(* Runtime.PowerState of a snapshot; "nil" is a nil Runtime.               *)
PoweredOn == "on"
PoweredOff == "off"
Suspended == "suspended"
NilRuntime == "nil"
(* Config.ChangeVersion of a snapshot; NilConfig is a nil Config.          *)
NilConfig == -1

NoEvents == [s \in States |-> 0]

(* A cache slot with no Container in it.                                   *)
NoContainer ==
    [cached |-> FALSE, state |-> StateUnknown, vm |-> FALSE,
     power |-> NilRuntime, cv |-> NilConfig, newStateEvents |-> NoEvents]

(* made counts the VMs the infrastructure created for the ID.              *)
NoVM == [exists |-> FALSE, power |-> PoweredOff, cv |-> 0, made |-> 0]

NoHandle ==
    [id |-> "c1", vm |-> FALSE, spec |-> FALSE, target |-> "",
     power |-> NilRuntime, cv |-> NilConfig]

IdleFlow ==
    [pc |-> "idle", h |-> NoHandle, cnil |-> TRUE, creation |-> FALSE,
     refresh |-> TRUE, finalState |-> StateUnknown, ops |-> <<>>,
     stamps |-> <<>>, evts |-> {}, ret |-> "", refreshed |-> 0,
     sess |-> TRUE, failed |-> "", existingState |-> StateUnknown,
     locked |-> FALSE]

(* The channel WaitForState returns when the state is already reached.     *)
closedEventChannel == 0

(* No WaitForState call has returned yet.                                  *)
NoSub == [id |-> "c1", s |-> StateUnknown, ch |-> -1]

(* ----------------------------- port bindings --------------------------- *)
(* One nat.PortBinding together with the container port/protocol key of    *)
(* the PortMap entry it stands in.                                         *)
Binding(proto, cport, hport) ==
    [proto |-> proto, cport |-> cport, hport |-> hport]

(* HostConfig.PortBindings: one sequence of bindings per container         *)
(* port/protocol key.  The three shapes: one binding; tcp and udp on the   *)
(* same host port; one container port published on two host ports.         *)
HostConfigs ==
    { {<<Binding("tcp", 80, 8083)>>},
      {<<Binding("tcp", 80, 8083)>>, <<Binding("udp", 80, 8083)>>},
      {<<Binding("tcp", 80, 8083), Binding("tcp", 80, 8084)>>} }

(* The HostConfig of a container published without a host port.           *)
AnyPortConfig == {<<Binding("tcp", 6379, Unspecified)>>}

NoPorts == [p \in HostPorts \cup EphemeralPorts |-> ""]

NoVic == [known |-> FALSE, started |-> FALSE, bindings |-> {}]

IdleBackend ==
    [op |-> "", pc |-> "idle", id |-> "c1", ret |-> "", todo |-> <<>>,
     victim |-> ""]

(* ------------------------------ endpoints ------------------------------ *)
(* The live Endpoint of container c1 and a copy of it; the ports that may  *)
(* be exposed; alias names; the name of the scope.  Go maps are references: *)
(* an Endpoint holds the index of its port map and of its alias map in the *)
(* two heaps.                                                              *)
EndpointRefs == {"e", "other"}
ExposedPorts == {80, 443}
AliasNames == {"web", "db"}
ScopeName == "bridge"

NoEndpoint ==
    [made |-> FALSE, container |-> "", scope |-> "", ports |-> 0,
     aliases |-> 0]

badAlias == [Name |-> "", Container |-> "", ep |-> ""]

(* ------------------------- ContainerCreate ----------------------------- *)
(* The address of the external interface and an address that is not the   *)
(* host's.                                                                 *)
ExternalIP == "192.168.1.5"
ForeignIP == "10.10.10.10"

HostIPs == {"", "0.0.0.0", ExternalIP, ForeignIP}

(* PortBinding.HostPort as the string's parts: <<>> is "", <<p>> is "p"    *)
(* and <<a, b>> is "a-b".                                                  *)
HostPortSpecs ==
    {<<>>, <<8088>>, <<8081, 8088>>, <<8088, 8081>>, <<8088, 8088>>}

PortBindings == [HostIP : HostIPs, HostPort : HostPortSpecs]

(* nat.ParsePortRangeToInt: the empty string is 0, 0; one port is its own  *)
(* start and end; a range whose end is below its start is an error.       *)
ParsePortRangeToInt(hp) ==
    CASE Len(hp) = 0 -> [start |-> 0, end |-> 0, err |-> FALSE]
      [] Len(hp) = 1 -> [start |-> hp[1], end |-> hp[1], err |-> FALSE]
      [] Len(hp) = 2 /\ hp[2] < hp[1] ->
            [start |-> 0, end |-> 0, err |-> TRUE]
      [] OTHER -> [start |-> hp[1], end |-> hp[2], err |-> FALSE]

ErrHostIP == "host IP for port bindings is only supported"
ErrRange == "host port ranges are not supported"

(* validateCreateConfig: the loop over the port bindings, with the         *)
(* addresses obtained for the external interface.                          *)
RECURSIVE validatePortBindings(_, _)
validatePortBindings(pbs, ips) ==
    IF pbs = <<>> THEN ""
    ELSE LET pb == Head(pbs)
             r == ParsePortRangeToInt(pb.HostPort)
         IN  IF pb.HostIP # "" /\ pb.HostIP # "0.0.0.0" /\ pb.HostIP \notin ips
             THEN ErrHostIP
             ELSE IF r.start # r.end THEN ErrRange
             ELSE validatePortBindings(Tail(pbs), ips)

(* validateCreateConfig: "" when the config is accepted.                   *)
validateCreateConfig(config, ips) ==
    IF ~config.hostConfig THEN "invalid config"
    ELSE IF validatePortBindings(config.pbs, ips) # ""
    THEN validatePortBindings(config.pbs, ips)
    ELSE IF config.user # "" /\ config.user # "root"
    THEN "users other than root are not currently supported"
    ELSE IF ~config.cmd THEN "No command specified"
    ELSE ""

NoConfig ==
    [name |-> "", hostConfig |-> FALSE, pbs |-> <<>>, user |-> "",
     cmd |-> FALSE]

(* No ContainerCreate request has been made.                               *)
NoCreate ==
    [pc |-> "idle", config |-> NoConfig, ips |-> {}, ret |-> "",
     handles |-> 0, committed |-> FALSE]

(* No containerBase has been handed to newContainer.                       *)
NoBase ==
    [power |-> NilRuntime, sessions |-> <<>>, built |-> FALSE,
     state |-> StateUnknown]

NoEndpoints ==
    [ep |-> [r \in EndpointRefs |-> NoEndpoint], ports |-> <<>>,
     aliases |-> <<>>, alias |-> badAlias, present |-> FALSE]

(* ------------------------- Container state machine ---------------------- *)
(* The loop over ExecConfig.Sessions: one of them has Started set.  Each   *)
(* session is given by its Started string.                                 *)
RECURSIVE anyStarted(_)
anyStarted(sessions) ==
    IF sessions = <<>> THEN FALSE
    ELSE IF Head(sessions) # "" THEN TRUE
    ELSE anyStarted(Tail(sessions))

(* newContainer taking a powered-off VM for one that never ran.            *)
newContainerState_noSessions(power, sessions) ==
    CASE power = NilRuntime -> StateCreated
      [] power = PoweredOn -> StateRunning
      [] power = Suspended -> StateSuspended
      [] OTHER -> StateCreated

(* newContainer: the state is derived from the snapshot's power state.     *)
newContainerState(power, sessions) ==
    CASE power = NilRuntime -> StateCreated
      [] power = PoweredOn -> StateRunning
      [] power = PoweredOff ->
            IF anyStarted(sessions) THEN StateStopped ELSE StateCreated
      [] power = Suspended -> StateSuspended
      [] OTHER -> StateCreated

newContainer(h) ==
    [cached |-> TRUE, state |-> newContainerState(h.power, <<>>),
     vm |-> h.vm, power |-> h.power, cv |-> h.cv,
     newStateEvents |-> NoEvents]

(* updateState keeping the subscription it fires.                          *)
updateState_keepSub(c, s) ==
    IF s # c.state THEN [c EXCEPT !.state = s] ELSE c

(* updateState: the container after the change.                            *)
updateState(c, s) ==
    IF s # c.state
    THEN [c EXCEPT !.state = s, !.newStateEvents[s] = 0]
    ELSE c

(* updateState: the channel closed by the change, 0 if none.               *)
closedBy(c, s) ==
    IF s # c.state THEN c.newStateEvents[s] ELSE 0

closeChan(ch) ==
    IF ch = 0 THEN chans ELSE [chans EXCEPT ![ch] = @ + 1]

(* RefreshFromHandle without the comparison of the change versions.        *)
RefreshFromHandle_always(c, h) ==
    [c EXCEPT !.vm = h.vm, !.power = h.power, !.cv = h.cv]

(* RefreshFromHandle: the snapshot is swapped only when versions agree.    *)
RefreshFromHandle(c, h) ==
    IF c.cv # NilConfig /\ (h.cv = NilConfig \/ h.cv # c.cv)
    THEN c
    ELSE [c EXCEPT !.vm = h.vm, !.power = h.power, !.cv = h.cv]

(* ------------------------------- Init ---------------------------------- *)
Init ==
    /\ vms = [c \in Containers |-> NoVM]
    /\ cont = [c \in Containers |-> NoContainer]
    /\ fl = [f \in Flows |-> IdleFlow]
    /\ chans = [ch \in 1..MaxChans |-> 0]
    /\ subs = [handed |-> {}, got |-> NoSub]
    /\ bk = [f \in Flows |-> IdleBackend]
    /\ nat = {}
    /\ containerByPort = NoPorts
    /\ persona = [c \in Containers |-> NoVic]
    /\ bound = [c \in Containers |-> FALSE]
    /\ allocated = {}
    /\ endpoints = NoEndpoints
    /\ observed = NoBase
    /\ create = NoCreate

(* --------------------------- state subscriptions ------------------------ *)
(* Channels made so far are numbered 1, 2, ...; chans counts the closes    *)
(* of each.                                                                *)
newChan == Cardinality(subs.handed) + 1

(* Container.WaitForState: the channel returned.                           *)
waitChannel(c, s) ==
    CASE s = c.state -> closedEventChannel
      [] c.newStateEvents[s] # 0 -> c.newStateEvents[s]
      [] OTHER -> newChan

WaitForState(id, s) ==
    /\ cont[id].cached
    /\ LET ch == waitChannel(cont[id], s)
       IN  /\ ch <= MaxChans
           /\ cont' = IF ch = closedEventChannel THEN cont
                      ELSE [cont EXCEPT ![id].newStateEvents[s] = ch]
           /\ subs' = [handed |-> IF ch = closedEventChannel THEN subs.handed
                                  ELSE subs.handed \cup
                                       {[id |-> id, s |-> s, ch |-> ch]},
                       got |-> [id |-> id, s |-> s, ch |-> ch]]
    /\ UNCHANGED <<vms, fl, chans, backendVars>>

(* Container.SetState                                                      *)
SetState(id, s) ==
    /\ cont[id].cached
    /\ cont' = [cont EXCEPT ![id] = updateState(cont[id], s)]
    /\ chans' = closeChan(closedBy(cont[id], s))
    /\ UNCHANGED <<vms, fl, subs, backendVars>>

(* ------------------- out-of-band infrastructure changes ----------------- *)
PowerOffOOB(id) ==
    /\ vms[id].exists /\ vms[id].power = PoweredOn
    /\ vms' = [vms EXCEPT ![id].power = PoweredOff]
    /\ UNCHANGED <<cont, fl, chans, subs, backendVars>>

PowerOnOOB(id) ==
    /\ vms[id].exists /\ vms[id].power = PoweredOff
    /\ vms' = [vms EXCEPT ![id].power = PoweredOn]
    /\ UNCHANGED <<cont, fl, chans, subs, backendVars>>

ModifyOOB(id) ==
    /\ vms[id].exists /\ vms[id].cv < MaxCV
    /\ vms' = [vms EXCEPT ![id].cv = @ + 1]
    /\ UNCHANGED <<cont, fl, chans, subs, backendVars>>

(* ------------------------------ handles -------------------------------- *)
(* The snapshot the property collector returns for a VM.                   *)
updates(id) == [power |-> vms[id].power, cv |-> vms[id].cv]

(* Container.Refresh: the cache with the snapshot of id swapped.           *)
Refresh(id) ==
    [cont EXCEPT ![id].power = updates(id).power, ![id].cv = updates(id).cv]

(* newHandle: a Handle with no changes over the refreshed snapshot.        *)
newHandle(id) ==
    [id |-> id, vm |-> cont[id].vm, spec |-> FALSE, target |-> "",
     power |-> updates(id).power, cv |-> updates(id).cv]

(* Container.NewHandle: Refresh from the infrastructure, then snapshot.    *)
NewHandle(f, id, ok) ==
    /\ fl[f].pc \in {"idle", "done"}
    /\ bk[f].pc \in {"idle", "done"}
    /\ cont[id].cached
    /\ IF ok /\ vms[id].exists
       THEN /\ cont' = Refresh(id)
            /\ fl' = [fl EXCEPT ![f] =
                   [IdleFlow EXCEPT !.pc = "ready", !.h = newHandle(id)]]
       ELSE /\ cont' = cont
            /\ fl' = [fl EXCEPT ![f] = IdleFlow]
    /\ UNCHANGED <<vms, chans, subs, backendVars>>

(* A fresh Handle for a container that does not exist yet: no backing VM,  *)
(* no runtime, no config; spec is FALSE when the caller supplied none.     *)
CreateHandle(f, id, spec) ==
    /\ fl[f].pc \in {"idle", "done"}
    /\ bk[f].pc \in {"idle", "done"}
    /\ ~vms[id].exists \/ cont[id].cached
    /\ fl' = [fl EXCEPT ![f] =
           [IdleFlow EXCEPT !.pc = "ready",
               !.h = [NoHandle EXCEPT !.id = id, !.spec = spec]]]
    /\ UNCHANGED <<vms, cont, chans, subs, backendVars>>

(* ------------------------------- Commit -------------------------------- *)
Targets == {"", StateRunning, StateStopped}

(* phaseAfter with the reconfigure ahead of the stop.                      *)
phaseAfter_reconfFirst(p) ==
    CASE p = "begin" -> "p_reconf"
      [] p = "p_reconf" -> "p_stop"
      [] OTHER -> "p_start"

(* The order of Commit's steps after the creation block.                   *)
phaseAfter(p) ==
    CASE p = "begin" -> "p_stop"
      [] p = "p_stop" -> "p_reconf"
      [] OTHER -> "p_start"

(* Commit returns with the error of the sub-step that failed.              *)
failedAt(w, step) == [w EXCEPT !.pc = "done", !.ret = step, !.failed = step]

(* The flow record when Commit returns r.                                  *)
returned(w, r) == [w EXCEPT !.pc = "done", !.ret = r]

(* createError without the session check.                                  *)
createError_noSession(h, sess, cnil, foldersOK) ==
    CASE ~h.spec -> "nospec"
      [] ~cnil -> "exists"
      [] ~foldersOK -> "folders"
      [] OTHER -> ""

(* createError without the duplicate-ID check.                             *)
createError_noDup(h, sess, cnil, foldersOK) ==
    CASE ~h.spec -> "nospec"
      [] ~sess -> "nosession"
      [] ~foldersOK -> "folders"
      [] OTHER -> ""

(* The validation of a creation Commit, in the order of the code;          *)
(* "" when the create-VM call is to be issued.                             *)
createError(h, sess, cnil, foldersOK) ==
    CASE ~h.spec -> "nospec"
      [] ~sess -> "nosession"
      [] ~cnil -> "exists"
      [] ~foldersOK -> "folders"
      [] OTHER -> ""

CommitBegin(f, sess, target, setSpec, foldersOK) ==
    /\ fl[f].pc = "ready"
    /\ LET h0 == fl[f].h
           h1 == [h0 EXCEPT !.target = target,
                            !.spec = IF h0.vm THEN setSpec ELSE h0.spec]
           cnil == ~cont[h1.id].cached
           w == [fl[f] EXCEPT !.h = h1, !.cnil = cnil, !.creation = ~h1.vm,
                              !.sess = sess]
           e == createError(h1, sess, cnil, foldersOK)
       IN  fl' = [fl EXCEPT ![f] =
               IF ~h1.vm
               THEN IF e # "" THEN returned(w, e)
                    ELSE [w EXCEPT !.pc = "create", !.ops = <<"create">>]
               ELSE [w EXCEPT !.pc = phaseAfter("begin")]]
    /\ UNCHANGED <<vms, cont, chans, subs, backendVars>>

(* The create-VM task returns.                                             *)
CreateReturn(f, ok) ==
    /\ fl[f].pc = "create"
    /\ LET id == fl[f].h.id
           h1 == [fl[f].h EXCEPT !.vm = TRUE]
       IN  IF ok
           THEN /\ vms' = [vms EXCEPT ![id] =
                       [exists |-> TRUE, power |-> PoweredOff, cv |-> 0,
                        made |-> vms[id].made + 1]]
                /\ cont' = [cont EXCEPT ![id] = newContainer(h1)]
                /\ fl' = [fl EXCEPT ![f] =
                       [fl[f] EXCEPT !.pc = phaseAfter("begin"),
                           !.cnil = FALSE,
                           !.h = [h1 EXCEPT !.spec = FALSE],
                           !.evts = @ \cup {"created"}]]
           ELSE /\ fl' = [fl EXCEPT ![f] = failedAt(fl[f], "create")]
                /\ UNCHANGED <<vms, cont>>
    /\ UNCHANGED <<chans, subs, backendVars>>

(* Does the stop step of Commit power the VM off?                          *)
needsStop(h) ==
    h.target = StateStopped /\ ~(h.power # NilRuntime /\ h.power = PoweredOff)

(* Container.stop taking the Container's lock for the power-off.           *)
stopIssued_locked(w, existing) ==
    [w EXCEPT !.pc = "stop", !.finalState = existing,
              !.ops = Append(@, "stop"), !.locked = TRUE]

(* Container.stop up to the power-off call: the state found is kept for    *)
(* the deferred updateState; no lock is taken.                             *)
stopIssued(w, existing) ==
    [w EXCEPT !.pc = "stop", !.finalState = existing,
              !.ops = Append(@, "stop")]

(* The stop step: either skipped, or Container.stop marks Stopping and     *)
(* issues the power-off.                                                   *)
StopPhase(f) ==
    /\ fl[f].pc = "p_stop"
    /\ LET id == fl[f].h.id
       IN  IF needsStop(fl[f].h)
           THEN IF fl[f].cnil
                THEN /\ fl' = [fl EXCEPT ![f] = returned(fl[f], "panic")]
                     /\ UNCHANGED <<cont, chans>>
                ELSE /\ cont' = [cont EXCEPT ![id] =
                            updateState(cont[id], StateStopping)]
                     /\ chans' = closeChan(closedBy(cont[id], StateStopping))
                     /\ fl' = [fl EXCEPT ![f] =
                            stopIssued(fl[f], cont[id].state)]
           ELSE /\ fl' = [fl EXCEPT ![f] =
                       [fl[f] EXCEPT !.pc = phaseAfter("p_stop"),
                                     !.refresh = TRUE]]
                /\ UNCHANGED <<cont, chans>>
    /\ UNCHANGED <<vms, subs, backendVars>>

(* stopFinalState leaving the Stopping mark on failure.                    *)
stopFinalState_keepStopping(ok, existing) ==
    IF ok THEN StateStopped ELSE StateStopping

(* Container.stop: the state the deferred updateState sets.                *)
stopFinalState(ok, existing) == IF ok THEN StateStopped ELSE existing

(* The power-off returns; on success Commit goes on to re-read the         *)
(* snapshot.                                                               *)
StopReturn(f, ok, bump) ==
    /\ fl[f].pc = "stop"
    /\ LET id == fl[f].h.id
           s == stopFinalState(ok, fl[f].finalState)
       IN  /\ cont' = [cont EXCEPT ![id] = updateState(cont[id], s)]
           /\ chans' = closeChan(closedBy(cont[id], s))
           /\ IF ok
              THEN /\ vms[id].exists
                   /\ vms[id].cv + bump <= MaxCV
                   /\ vms' = [vms EXCEPT ![id].power = PoweredOff,
                                         ![id].cv = @ + bump]
                   /\ fl' = [fl EXCEPT ![f] =
                          [fl[f] EXCEPT !.pc = "stop_refresh",
                              !.evts = @ \cup {"stopped"},
                              !.ops = Append(@, "refresh")]]
              ELSE /\ bump = 0
                   /\ fl' = [fl EXCEPT ![f] = failedAt(fl[f], "stop")]
                   /\ UNCHANGED vms
    /\ UNCHANGED <<subs, backendVars>>

(* The property refresh after the stop returns.                            *)
StopRefreshReturn(f, ok) ==
    /\ fl[f].pc = "stop_refresh"
    /\ LET id == fl[f].h.id
       IN  IF ok /\ vms[id].exists
           THEN fl' = [fl EXCEPT ![f] =
                    [fl[f] EXCEPT !.pc = phaseAfter("p_stop"),
                        !.refresh = FALSE,
                        !.h = [@ EXCEPT !.power = updates(id).power,
                                        !.cv = updates(id).cv]]]
           ELSE fl' = [fl EXCEPT ![f] = failedAt(fl[f], "refresh")]
    /\ UNCHANGED <<vms, cont, chans, subs, backendVars>>

(* One reconfigure attempt: the spec is stamped with the handle's          *)
(* change-version and the task is issued.  reread tells whether the        *)
(* version was re-read from the infrastructure in this iteration.          *)
issueReconfigure(w, reread) ==
    [w EXCEPT !.pc = "reconf", !.ops = Append(@, "reconfigure"),
              !.stamps = Append(@, [cv |-> w.h.cv, reread |-> reread])]

(* The reconfigure step: skipped without a spec or without runtime state;  *)
(* otherwise the loop is entered, with a property refresh first unless the *)
(* stop step has just refreshed.                                           *)
ReconfPhase(f) ==
    /\ fl[f].pc = "p_reconf"
    /\ fl' = [fl EXCEPT ![f] =
           IF fl[f].h.spec /\ fl[f].h.power # NilRuntime
           THEN IF fl[f].refresh
                THEN [fl[f] EXCEPT !.pc = "reconf_refresh",
                                   !.ops = Append(@, "refresh")]
                ELSE issueReconfigure(fl[f], FALSE)
           ELSE [fl[f] EXCEPT !.pc = phaseAfter("p_reconf")]]
    /\ UNCHANGED <<vms, cont, chans, subs, backendVars>>

(* The handle after the in-loop refresh: a failed refresh is ignored and   *)
(* leaves the handle as it was.                                            *)
loopRefresh(h, ok, base) ==
    IF ok THEN [h EXCEPT !.power = base.power, !.cv = base.cv] ELSE h

(* The in-loop property refresh returns; the reconfigure is issued.        *)
ReconfRefreshReturn(f, ok) ==
    /\ fl[f].pc = "reconf_refresh"
    /\ ok => vms[fl[f].h.id].exists
    /\ Len(fl[f].stamps) < MaxAttempts
    /\ LET id == fl[f].h.id
           w == [fl[f] EXCEPT !.h = loopRefresh(@, ok, updates(id))]
       IN  fl' = [fl EXCEPT ![f] = issueReconfigure(w, ok)]
    /\ UNCHANGED <<vms, cont, chans, subs, backendVars>>

ReconfOutcomes == {"ok", "conflict", "fault"}

(* afterReconfigure going on to the start step after any fault.            *)
afterReconfigure_ignoreFault(outcome) ==
    CASE outcome = "conflict" -> "retry"
      [] OTHER -> "next"

(* What follows a reconfigure result: "next" leaves the loop, "retry"      *)
(* runs it again, "abort" returns the error.                               *)
afterReconfigure(outcome) ==
    CASE outcome = "ok" -> "next"
      [] outcome = "conflict" -> "retry"
      [] OTHER -> "abort"

(* The reconfigure task returns.  The infrastructure accepts a spec only   *)
(* when its stamp is the VM's current change-version and answers a         *)
(* mismatch with ConcurrentAccess; any call may fail with another fault.   *)
ReconfReturn(f, outcome) ==
    /\ fl[f].pc = "reconf"
    /\ LET id == fl[f].h.id
           stamp == fl[f].stamps[Len(fl[f].stamps)].cv
           a == afterReconfigure(outcome)
       IN  /\ outcome = "ok" =>
                 vms[id].exists /\ stamp = vms[id].cv /\ vms[id].cv < MaxCV
           /\ outcome = "conflict" =>
                 /\ vms[id].exists /\ stamp # vms[id].cv
                 /\ Len(fl[f].stamps) < MaxAttempts
           /\ vms' = IF outcome = "ok"
                     THEN [vms EXCEPT ![id].cv = @ + 1] ELSE vms
           /\ fl' = [fl EXCEPT ![f] =
                  CASE a = "next" ->
                         [fl[f] EXCEPT !.pc = phaseAfter("p_reconf"),
                             !.failed = IF outcome = "fault"
                                        THEN "reconfigure" ELSE @]
                    [] a = "retry" ->
                         [fl[f] EXCEPT !.pc = "reconf_refresh",
                             !.refresh = TRUE,
                             !.ops = Append(@, "refresh"),
                             !.failed = IF outcome = "fault"
                                        THEN "reconfigure" ELSE @]
                    [] OTHER -> failedAt(fl[f], "reconfigure")]
    /\ UNCHANGED <<cont, chans, subs, backendVars>>

(* Does the start step of Commit power the VM on?                          *)
needsStart(h) ==
    h.target = StateRunning /\ ~(h.power # NilRuntime /\ h.power = PoweredOn)

(* The deferred RefreshFromHandle of a non-creation Commit.                *)
deferredRefresh(w, c) == IF w.creation THEN c ELSE RefreshFromHandle(c, w.h)

(* Commit returns r after the point where the refresh was deferred.        *)
returnedLate(w, r) ==
    [returned(w, IF ~w.creation /\ w.cnil THEN "panic" ELSE r)
        EXCEPT !.refreshed = IF w.creation THEN @ ELSE @ + 1]

(* The start step: either nothing is left to do and Commit returns, or     *)
(* Container.start marks Starting and issues the power-on.                 *)
StartPhase(f) ==
    /\ fl[f].pc = "p_start"
    /\ LET id == fl[f].h.id
       IN  IF needsStart(fl[f].h) /\ ~fl[f].cnil /\ cont[id].vm
           THEN /\ cont' = [cont EXCEPT ![id] =
                       updateState(cont[id], StateStarting)]
                /\ chans' = closeChan(closedBy(cont[id], StateStarting))
                /\ fl' = [fl EXCEPT ![f] =
                       [fl[f] EXCEPT !.pc = "start",
                           !.finalState = cont[id].state,
                           !.ops = Append(@, "start")]]
           ELSE /\ cont' = IF fl[f].cnil THEN cont
                           ELSE [cont EXCEPT ![id] =
                                    deferredRefresh(fl[f], cont[id])]
                /\ fl' = [fl EXCEPT ![f] = returnedLate(fl[f],
                       CASE ~needsStart(fl[f].h) -> "ok"
                         [] fl[f].cnil -> "panic"
                         [] OTHER -> "novm")]
                /\ UNCHANGED chans
    /\ UNCHANGED <<vms, subs, backendVars>>

(* startFinalState reverting to the state before the attempt on failure.   *)
startFinalState_revert(ok, existing) ==
    IF ok THEN StateRunning ELSE existing

(* Container.start: the state the deferred updateState sets.               *)
startFinalState(ok, existing) == IF ok THEN StateRunning ELSE StateStarting

(* The power-on returns, and with it Commit.                               *)
StartReturn(f, ok) ==
    /\ fl[f].pc = "start"
    /\ ok => vms[fl[f].h.id].exists
    /\ LET id == fl[f].h.id
           s == startFinalState(ok, fl[f].finalState)
       IN  /\ cont' = [cont EXCEPT ![id] =
                   deferredRefresh(fl[f], updateState(cont[id], s))]
           /\ chans' = closeChan(closedBy(cont[id], s))
           /\ vms' = IF ok THEN [vms EXCEPT ![id].power = PoweredOn] ELSE vms
           /\ fl' = [fl EXCEPT ![f] =
                  IF ok
                  THEN returnedLate([fl[f] EXCEPT
                                        !.evts = @ \cup {"started"}], "ok")
                  ELSE returnedLate([fl[f] EXCEPT !.failed = "start"],
                                    "start")]
    /\ UNCHANGED <<subs, backendVars>>

(* ---------------------------- port mapping ------------------------------ *)
(* The orders in which a range over a map of n keys may visit them.        *)
Orders(S) ==
    { p \in [1..Cardinality(S) -> S] :
        \A i, j \in 1..Cardinality(S) : p[i] = p[j] => i = j }

RECURSIVE Flatten(_, _)
Flatten(p, k) == IF k > Len(p) THEN <<>> ELSE p[k] \o Flatten(p, k + 1)

(* unrollPortMap: the port mappings of a PortMap, keys in map order, the   *)
(* bindings of a key in slice order; every order the range may take.       *)
unrollPortMap(portMap) == { Flatten(p, 1) : p \in Orders(portMap) }

(* requestHostPort: the allocator hands out the next port not handed out  *)
(* yet; nothing in this code gives a port back.                            *)
requestHostPort(alloc) ==
    CHOOSE p \in EphemeralPorts \ alloc :
        \A q \in EphemeralPorts \ alloc : p <= q

(* The bindings of order that name no host port.                           *)
unspecified(order) == { i \in 1..Len(order) : order[i].hport = Unspecified }

(* The loop of unrollPortMap over the bindings in the order taken: a       *)
(* binding without a host port gets one from the allocator.  The port is   *)
(* assigned to the loop variable, a copy of the binding: the returned      *)
(* mapping carries it, the HostConfig does not.                            *)
RECURSIVE unrollFrom(_, _, _)
unrollFrom(order, k, alloc) ==
    IF k > Len(order)
    THEN [portMap |-> <<>>, allocated |-> alloc]
    ELSE IF order[k].hport = Unspecified
         THEN LET hostPort == requestHostPort(alloc)
                  rest == unrollFrom(order, k + 1, alloc \cup {hostPort})
              IN  [rest EXCEPT !.portMap =
                      <<[order[k] EXCEPT !.hport = hostPort]>> \o @]
         ELSE LET rest == unrollFrom(order, k + 1, alloc)
              IN  [rest EXCEPT !.portMap = <<order[k]>> \o @]

(* The allocator can serve the bindings of order.                          *)
canUnroll(order) ==
    Cardinality(unspecified(order)) <= Cardinality(EphemeralPorts \ allocated)

(* The address BindContainer gives the endpoint of id on the bridge.       *)
endpointAddress(id) == id

(* The rules the NAT facility holds for a host port and protocol.          *)
rulesFor(n, proto, hport) ==
    { r \in n : r.proto = proto /\ r.hport = hport }

(* portMapper.MapPort: fails when the host port and protocol are taken.    *)
MapPort(n, p, ip) ==
    IF rulesFor(n, p.proto, p.hport) # {}
    THEN [nat |-> n, err |-> TRUE]
    ELSE [nat |-> n \cup {[proto |-> p.proto, hport |-> p.hport,
                           ip |-> ip, cport |-> p.cport]},
          err |-> FALSE]

(* portMapper.UnmapPort: removes the rule of the host port and protocol.   *)
UnmapPort(n, p) == n \ rulesFor(n, p.proto, p.hport)

(* The loop of mapPorts from mapping k on; failAt is the mapping at which  *)
(* the NAT facility reports a fault of its own (0 for none).               *)
RECURSIVE mapPortsFrom(_, _, _, _, _, _, _)
(* A variant that records the owner before looking at MapPort's error.     *)
mapPortsFrom_recordFirst(n, idx, portMap, k, ip, containerID, failAt) ==
    IF k > Len(portMap)
    THEN [nat |-> n, idx |-> idx, err |-> FALSE]
    ELSE LET m == MapPort(n, portMap[k], ip)
             rec == [idx EXCEPT ![portMap[k].hport] = containerID]
         IN  IF failAt = k \/ m.err
             THEN [nat |-> n, idx |-> rec, err |-> TRUE]
             ELSE mapPortsFrom(m.nat, rec, portMap, k + 1, ip,
                               containerID, failAt)

mapPortsFrom(n, idx, portMap, k, ip, containerID, failAt) ==
    IF k > Len(portMap)
    THEN [nat |-> n, idx |-> idx, err |-> FALSE]
    ELSE LET m == MapPort(n, portMap[k], ip)
         IN  IF failAt = k \/ m.err
             THEN [nat |-> n, idx |-> idx, err |-> TRUE]
             ELSE mapPortsFrom(m.nat,
                      [idx EXCEPT ![portMap[k].hport] = containerID],
                      portMap, k + 1, ip, containerID, failAt)

(* mapPorts: install a rule per mapping and record the owner of the host   *)
(* port; the first failure returns with the earlier mappings in place.     *)
mapPorts(n, idx, portMap, ip, containerID, failAt) ==
    mapPortsFrom(n, idx, portMap, 1, ip, containerID, failAt)

(* The loop of unmapPorts from mapping k on; calls lists the host ports    *)
(* handed to UnmapPort.                                                    *)
RECURSIVE unmapPortsFrom(_, _, _, _, _)
(* A variant that calls UnmapPort without consulting the index.            *)
unmapPortsFrom_noLookup(n, idx, portMap, k, failAt) ==
    IF k > Len(portMap)
    THEN [nat |-> n, idx |-> idx, err |-> FALSE, calls |-> <<>>]
    ELSE IF failAt = k
         THEN [nat |-> n, idx |-> idx, err |-> TRUE,
               calls |-> <<portMap[k].hport>>]
         ELSE LET r == unmapPortsFrom(UnmapPort(n, portMap[k]),
                           [idx EXCEPT ![portMap[k].hport] = ""],
                           portMap, k + 1, failAt)
              IN  [r EXCEPT !.calls = <<portMap[k].hport>> \o @]

unmapPortsFrom(n, idx, portMap, k, failAt) ==
    IF k > Len(portMap)
    THEN [nat |-> n, idx |-> idx, err |-> FALSE, calls |-> <<>>]
    ELSE IF idx[portMap[k].hport] = ""
         THEN unmapPortsFrom(n, idx, portMap, k + 1, failAt)
         ELSE IF failAt = k
              THEN [nat |-> n, idx |-> idx, err |-> TRUE,
                    calls |-> <<portMap[k].hport>>]
              ELSE LET r == unmapPortsFrom(UnmapPort(n, portMap[k]),
                                [idx EXCEPT ![portMap[k].hport] = ""],
                                portMap, k + 1, failAt)
                   IN  [r EXCEPT !.calls = <<portMap[k].hport>> \o @]

(* unmapPorts: for every mapping whose host port has an index entry,       *)
(* remove the rule and the entry; other mappings are skipped.              *)
unmapPorts(n, idx, portMap, failAt) ==
    unmapPortsFrom(n, idx, portMap, 1, failAt)

(* ---------------------- containerStart, containerStop ------------------- *)
(* containerProxy.IsRunning: the live power state of the container's VM.   *)
IsRunning(id) == vms[id].exists /\ vms[id].power = PoweredOn

(* GetContainerInfo: the state the port layer holds for the container.     *)
GetContainerInfo(id) == cont[id].state

(* The request returns r without a handle left over.                       *)
backendReturn(f, r) ==
    /\ bk' = [bk EXCEPT ![f] = [@ EXCEPT !.pc = "done", !.ret = r,
                                         !.todo = <<>>, !.victim = ""]]
    /\ fl' = [fl EXCEPT ![f] = IdleFlow]

(* containerStart returns an error after the bind: the deferred unbind.    *)
startAbort(f) ==
    /\ backendReturn(f, "error")
    /\ bound' = [bound EXCEPT ![bk[f].id] = FALSE]

(* cleanupPortBindings moves on to the next requested host port.           *)
cleanupAdvance(f) ==
    /\ bk' = [bk EXCEPT ![f] =
           [@ EXCEPT !.todo = Tail(bk[f].todo), !.victim = "",
                     !.pc = IF Tail(bk[f].todo) = <<>> THEN "map"
                            ELSE "cleanup"]]
    /\ UNCHANGED <<fl, bound>>

(* containerStart up to the bind: cache lookup, Handle, BindContainer.     *)
ContainerStartBegin(f, id, handleOK, bindOK, order) ==
    /\ bk[f].pc \in {"idle", "done"}
    /\ fl[f].pc \in {"idle", "done"}
    /\ persona[id].known
    /\ order \in unrollPortMap(persona[id].bindings)
    /\ LET b == [IdleBackend EXCEPT !.op = "start", !.id = id]
       IN  IF ~(handleOK /\ cont[id].cached /\ vms[id].exists)
           THEN /\ bk' = [bk EXCEPT ![f] =
                       [b EXCEPT !.pc = "done", !.ret = "error"]]
                /\ fl' = [fl EXCEPT ![f] = IdleFlow]
                /\ UNCHANGED <<cont, bound>>
           ELSE /\ cont' = Refresh(id)
                /\ IF ~bindOK
                   THEN /\ bk' = [bk EXCEPT ![f] =
                               [b EXCEPT !.pc = "done", !.ret = "error"]]
                        /\ fl' = [fl EXCEPT ![f] = IdleFlow]
                        /\ UNCHANGED bound
                   ELSE /\ bk' = [bk EXCEPT ![f] =
                               [b EXCEPT !.pc = IF order = <<>> THEN "map"
                                                ELSE "cleanup",
                                   !.todo = [i \in 1..Len(order) |->
                                                order[i].hport]]]
                        /\ fl' = [fl EXCEPT ![f] =
                               [IdleFlow EXCEPT !.pc = "bound",
                                                !.h = newHandle(id)]]
                        /\ bound' = [bound EXCEPT ![id] = TRUE]
    /\ UNCHANGED <<vms, chans, subs, nat, containerByPort, persona, allocated>>
    /\ UNCHANGED <<endpoints, observed, create>>

(* cleanupPortBindings, one requested host port: look the owner up in the  *)
(* index and ask for its power state.                                      *)
CleanupCheck(f, runOK) ==
    /\ bk[f].pc = "cleanup"
    /\ LET hPort == Head(bk[f].todo)
           mappedCtr == IF hPort \in DOMAIN containerByPort
                        THEN containerByPort[hPort] ELSE ""
       IN  IF mappedCtr = ""
           THEN cleanupAdvance(f)
           ELSE IF ~persona[mappedCtr].known \/ ~runOK
                THEN startAbort(f)
                ELSE IF IsRunning(mappedCtr)
                     THEN cleanupAdvance(f)
                     ELSE /\ bk' = [bk EXCEPT ![f] =
                                 [@ EXCEPT !.pc = "cleanup_unmap",
                                           !.victim = mappedCtr]]
                          /\ UNCHANGED <<fl, bound>>
    /\ UNCHANGED <<vms, cont, chans, subs, nat, containerByPort, persona,
                   allocated>>
    /\ UNCHANGED <<endpoints, observed, create>>

(* cleanupPortBindings: unmapPorts with the bindings of the owner found    *)
(* not running.                                                            *)
CleanupUnmap(f, order, failAt) ==
    /\ bk[f].pc = "cleanup_unmap"
    /\ order \in unrollPortMap(persona[bk[f].victim].bindings)
    /\ failAt \in 0..Len(order)
    /\ canUnroll(order)
    /\ LET u == unrollFrom(order, 1, allocated)
           r == unmapPorts(nat, containerByPort, u.portMap, failAt)
       IN  /\ nat' = r.nat
           /\ containerByPort' = r.idx
           /\ allocated' = u.allocated
           /\ IF r.err THEN startAbort(f) ELSE cleanupAdvance(f)
    /\ UNCHANGED <<vms, cont, chans, subs, persona>>
    /\ UNCHANGED <<endpoints, observed, create>>

(* containerStart: StateChange to RUNNING on the handle, then mapPorts to  *)
(* the endpoint of the bind.  An error of mapPorts returns before the      *)
(* deferred unmapPorts is registered.                                      *)
StartMap(f, stateChangeOK, order, failAt) ==
    /\ bk[f].pc = "map"
    /\ order \in unrollPortMap(persona[bk[f].id].bindings)
    /\ failAt \in 0..Len(order)
    /\ canUnroll(order)
    /\ IF ~stateChangeOK
       THEN /\ startAbort(f)
            /\ UNCHANGED <<nat, containerByPort, allocated>>
       ELSE LET u == unrollFrom(order, 1, allocated)
                r == mapPorts(nat, containerByPort, u.portMap,
                         endpointAddress(bk[f].id), bk[f].id, failAt)
            IN  /\ nat' = r.nat
                /\ containerByPort' = r.idx
                /\ allocated' = u.allocated
                /\ IF r.err
                   THEN startAbort(f)
                   ELSE /\ bk' = [bk EXCEPT ![f].pc = "commit"]
                        /\ fl' = [fl EXCEPT ![f].pc = "ready"]
                        /\ UNCHANGED bound
    /\ UNCHANGED <<vms, cont, chans, subs, persona>>
    /\ UNCHANGED <<endpoints, observed, create>>

(* containerStart, containerStop: Commit of the handle.                    *)
BackendCommit(f) ==
    /\ bk[f].pc = "commit"
    /\ CommitBegin(f, TRUE,
           IF bk[f].op = "start" THEN StateRunning ELSE StateStopped,
           FALSE, TRUE)

(* containerStart returns: nil after a nil Commit, else the deferred       *)
(* unmapPorts and unbind run and the error is returned.                    *)
ContainerStartReturn(f, order, failAt) ==
    /\ bk[f].pc = "commit" /\ bk[f].op = "start"
    /\ fl[f].pc = "done"
    /\ order \in unrollPortMap(persona[bk[f].id].bindings)
    /\ failAt \in 0..Len(order)
    /\ IF fl[f].ret = "ok"
       THEN /\ backendReturn(f, "ok")
            /\ persona' = [persona EXCEPT ![bk[f].id].started = TRUE]
            /\ failAt = 0
            /\ UNCHANGED <<nat, containerByPort, bound, allocated>>
       ELSE LET u == unrollFrom(order, 1, allocated)
                r == unmapPorts(nat, containerByPort, u.portMap, failAt)
            IN  /\ canUnroll(order)
                /\ nat' = r.nat
                /\ containerByPort' = r.idx
                /\ allocated' = u.allocated
                /\ startAbort(f)
                /\ UNCHANGED persona
    /\ UNCHANGED <<vms, cont, chans, subs>>
    /\ UNCHANGED <<endpoints, observed, create>>

(* containerStop up to the short circuit: cache lookup, Handle,            *)
(* GetContainerInfo; nil at once for a Stopped or Created container.       *)
ContainerStopBegin(f, id, handleOK, infoOK) ==
    /\ bk[f].pc \in {"idle", "done"}
    /\ fl[f].pc \in {"idle", "done"}
    /\ persona[id].known
    /\ LET b == [IdleBackend EXCEPT !.op = "stop", !.id = id]
       IN  IF ~(handleOK /\ cont[id].cached /\ vms[id].exists)
           THEN /\ bk' = [bk EXCEPT ![f] =
                       [b EXCEPT !.pc = "done", !.ret = "error"]]
                /\ fl' = [fl EXCEPT ![f] = IdleFlow]
                /\ UNCHANGED <<cont, persona>>
           ELSE /\ cont' = Refresh(id)
                /\ IF ~infoOK
                   THEN /\ bk' = [bk EXCEPT ![f] =
                               [b EXCEPT !.pc = "done", !.ret = "notfound"]]
                        /\ fl' = [fl EXCEPT ![f] = IdleFlow]
                        /\ persona' = [persona EXCEPT ![id] = NoVic]
                   ELSE IF GetContainerInfo(id) \in {StateStopped, StateCreated}
                        THEN /\ bk' = [bk EXCEPT ![f] =
                                    [b EXCEPT !.pc = "done", !.ret = "ok"]]
                             /\ fl' = [fl EXCEPT ![f] = IdleFlow]
                             /\ UNCHANGED persona
                        ELSE /\ bk' = [bk EXCEPT ![f] =
                                    [b EXCEPT !.pc = "unbind"]]
                             /\ fl' = [fl EXCEPT ![f] =
                                    [IdleFlow EXCEPT !.pc = "bound",
                                                     !.h = newHandle(id)]]
                             /\ UNCHANGED persona
    /\ UNCHANGED <<vms, chans, subs, nat, containerByPort, bound, allocated>>
    /\ UNCHANGED <<endpoints, observed, create>>

(* containerStop: UnbindContainer, unmapPorts, StateChange to STOPPED.     *)
(* unbind is "ok", "notfound" (ignored) or "error".                        *)
StopUnmap(f, unbind, order, failAt, stateChangeOK) ==
    /\ bk[f].pc = "unbind"
    /\ order \in unrollPortMap(persona[bk[f].id].bindings)
    /\ failAt \in 0..Len(order)
    /\ IF unbind = "error"
       THEN /\ backendReturn(f, "error")
            /\ failAt = 0 /\ stateChangeOK
            /\ UNCHANGED <<nat, containerByPort, bound, allocated>>
       ELSE LET u == unrollFrom(order, 1, allocated)
                r == unmapPorts(nat, containerByPort, u.portMap, failAt)
            IN  /\ canUnroll(order)
                /\ allocated' = u.allocated
                /\ bound' = [bound EXCEPT ![bk[f].id] =
                                 IF unbind = "ok" THEN FALSE ELSE @]
                /\ nat' = r.nat
                /\ containerByPort' = r.idx
                /\ IF r.err \/ ~stateChangeOK
                   THEN backendReturn(f, "error")
                   ELSE /\ bk' = [bk EXCEPT ![f].pc = "commit"]
                        /\ fl' = [fl EXCEPT ![f].pc = "ready"]
    /\ UNCHANGED <<vms, cont, chans, subs, persona>>
    /\ UNCHANGED <<endpoints, observed, create>>

(* containerStop returns what Commit returned.                             *)
ContainerStopReturn(f) ==
    /\ bk[f].pc = "commit" /\ bk[f].op = "stop"
    /\ fl[f].pc = "done"
    /\ backendReturn(f, IF fl[f].ret = "ok" THEN "ok" ELSE "error")
    /\ persona' = [persona EXCEPT ![bk[f].id].started =
                       IF fl[f].ret = "ok" THEN FALSE ELSE @]
    /\ UNCHANGED <<vms, cont, chans, subs, nat, containerByPort, bound,
                   allocated>>
    /\ UNCHANGED <<endpoints, observed, create>>

(* mapPorts called for container id, as containerStart calls it.           *)
MapCall(f, id, order, failAt) ==
    /\ bk[f].pc = "idle"
    /\ order \in unrollPortMap(persona[id].bindings)
    /\ failAt \in 0..Len(order)
    /\ canUnroll(order)
    /\ LET u == unrollFrom(order, 1, allocated)
           r == mapPorts(nat, containerByPort, u.portMap,
                         endpointAddress(id), id, failAt)
       IN  /\ allocated' = u.allocated
           /\ nat' = r.nat
           /\ containerByPort' = r.idx
    /\ UNCHANGED <<vms, cont, fl, chans, subs, bk, persona, bound>>
    /\ UNCHANGED <<endpoints, observed, create>>

(* unmapPorts called for the HostConfig of container id; the caller goes   *)
(* on to a second call when this one returns nil.                          *)
UnmapCall(f, id, order, failAt) ==
    /\ bk[f].pc = "idle"
    /\ order \in unrollPortMap(persona[id].bindings)
    /\ failAt \in 0..Len(order)
    /\ canUnroll(order)
    /\ LET u == unrollFrom(order, 1, allocated)
           r == unmapPorts(nat, containerByPort, u.portMap, failAt)
       IN  /\ allocated' = u.allocated
           /\ nat' = r.nat
           /\ containerByPort' = r.idx
           /\ bk' = [bk EXCEPT ![f] =
                        [@ EXCEPT !.op = "unmap", !.id = id,
                                  !.pc = IF r.err THEN "done" ELSE "unmapped",
                                  !.ret = IF r.err THEN "error" ELSE "ok",
                                  !.todo = r.calls]]
    /\ UNCHANGED <<vms, cont, fl, chans, subs, persona, bound>>
    /\ UNCHANGED <<endpoints, observed, create>>

(* The second unmapPorts call for the same HostConfig; todo keeps the      *)
(* UnmapPort calls of both.                                                *)
UnmapAgain(f, order, failAt) ==
    /\ bk[f].pc = "unmapped"
    /\ order \in unrollPortMap(persona[bk[f].id].bindings)
    /\ failAt \in 0..Len(order)
    /\ canUnroll(order)
    /\ LET u == unrollFrom(order, 1, allocated)
           r == unmapPorts(nat, containerByPort, u.portMap, failAt)
       IN  /\ allocated' = u.allocated
           /\ nat' = r.nat
           /\ containerByPort' = r.idx
           /\ bk' = [bk EXCEPT ![f] =
                        [@ EXCEPT !.pc = "done",
                                  !.ret = IF r.err THEN "error" ELSE "ok",
                                  !.todo = @ \o r.calls]]
    /\ UNCHANGED <<vms, cont, fl, chans, subs, persona, bound>>
    /\ UNCHANGED <<endpoints, observed, create>>

(* ------------------------------- Remove -------------------------------- *)
(* The VM is destroyed out of band.                                        *)
DestroyOOB(id) ==
    /\ vms[id].exists
    /\ vms' = [vms EXCEPT ![id].exists = FALSE]
    /\ UNCHANGED <<cont, fl, chans, subs, backendVars>>

(* Remove holds the container's mutex from its first line to its return.   *)
RemovePcs == {"rm_dspath", "rm_delete", "rm_unregister", "rm_files"}

removing(id) == \E g \in Flows : fl[g].pc \in RemovePcs /\ fl[g].h.id = id

(* The entry checks of Remove without the power check.                     *)
removeError_noPower(c) ==
    CASE ~c.vm -> "NotFoundError"
      [] OTHER -> ""

(* The entry checks of Remove; "" when the removal goes ahead.             *)
removeError(c) ==
    CASE ~c.vm -> "NotFoundError"
      [] c.state = StateRunning -> "RemovePowerError"
      [] OTHER -> ""

(* What Remove does on a failed DSPath, taking every error for a VM that   *)
(* is gone.                                                                *)
dsPathFailure_evictAll(res) == "evict"

(* What Remove does on a failed DSPath: a ManagedObjectNotFound fault      *)
(* removes the container from the cache, any other error reverts the       *)
(* state.                                                                  *)
dsPathFailure(res) ==
    IF res = "ManagedObjectNotFound" THEN "evict" ELSE "revert"

(* What Remove does on a failed delete: an error that carries no fault     *)
(* and a fault other than InvalidState revert the state and return the     *)
(* error; InvalidState goes on to unregister the VM.                       *)
deleteFailure(res) ==
    CASE res = "nofault" -> "revert"
      [] res = "InvalidState" -> "unregister"
      [] OTHER -> "revert"

(* Remove returns r; the mutex is released.                                *)
removeReturn(f, r) ==
    fl' = [fl EXCEPT ![f] = [@ EXCEPT !.pc = "done", !.ret = r,
                                      !.locked = FALSE]]

(* Remove returns err after setting the state back to existingState.       *)
removeRevert(f) ==
    LET id == fl[f].h.id
    IN  /\ cont' = [cont EXCEPT ![id] =
                       updateState(cont[id], fl[f].existingState)]
        /\ chans' = closeChan(closedBy(cont[id], fl[f].existingState))
        /\ removeReturn(f, "error")

(* Containers.Remove: the cache slot of id is emptied.                     *)
evict(id) == [cont EXCEPT ![id] = NoContainer]

(* Remove up to the datastore-path lookup: the entry checks, then the      *)
(* state is set to Removing.                                               *)
RemoveBegin(f, id) ==
    /\ fl[f].pc \in {"idle", "done"}
    /\ bk[f].pc \in {"idle", "done"}
    /\ cont[id].cached
    /\ ~removing(id)
    /\ LET e == removeError(cont[id])
           w == [IdleFlow EXCEPT !.h = [NoHandle EXCEPT !.id = id]]
       IN  IF e # ""
           THEN /\ fl' = [fl EXCEPT ![f] = returned(w, e)]
                /\ UNCHANGED <<cont, chans>>
           ELSE /\ fl' = [fl EXCEPT ![f] =
                          [w EXCEPT !.pc = "rm_dspath",
                                    !.locked = TRUE,
                                    !.existingState = cont[id].state,
                                    !.ops = <<"dspath">>]]
                /\ cont' = [cont EXCEPT ![id] =
                               updateState(cont[id], StateRemoving)]
                /\ chans' = closeChan(closedBy(cont[id], StateRemoving))
    /\ UNCHANGED <<vms, subs, backendVars>>

(* vm.DSPath returns: the path, a ManagedObjectNotFound fault for a VM     *)
(* that is gone, or another error.                                         *)
RemoveDSPath(f, res) ==
    /\ fl[f].pc = "rm_dspath"
    /\ LET id == fl[f].h.id
       IN  /\ res = "ok" => vms[id].exists
           /\ res = "ManagedObjectNotFound" => ~vms[id].exists
           /\ IF res = "ok"
              THEN /\ fl' = [fl EXCEPT ![f] =
                             [@ EXCEPT !.pc = "rm_delete",
                                       !.ops = Append(@, "delete")]]
                   /\ UNCHANGED <<cont, chans>>
              ELSE IF dsPathFailure(res) = "evict"
                   THEN /\ cont' = evict(id)
                        /\ fl' = [fl EXCEPT ![f] =
                                  [@ EXCEPT !.pc = "done",
                                            !.ret = "NotFoundError",
                                            !.locked = FALSE,
                                            !.failed = res]]
                        /\ UNCHANGED chans
                   ELSE removeRevert(f)
    /\ UNCHANGED <<vms, subs, backendVars>>

(* The DeleteExceptDisks task returns: done, an error without a fault, or  *)
(* a fault (ManagedObjectNotFound for a VM that is gone).                  *)
RemoveDelete(f, res) ==
    /\ fl[f].pc = "rm_delete"
    /\ res = "ok" => vms[fl[f].h.id].exists
    /\ res = "ManagedObjectNotFound" => ~vms[fl[f].h.id].exists
    /\ LET id == fl[f].h.id
       IN  IF res = "ok"
           THEN /\ vms' = [vms EXCEPT ![id].exists = FALSE]
                /\ fl' = [fl EXCEPT ![f] =
                          [@ EXCEPT !.pc = "rm_files",
                                    !.evts = @ \cup {"deleted"},
                                    !.ops = Append(@, "deletefile")]]
                /\ UNCHANGED <<cont, chans>>
           ELSE /\ UNCHANGED vms
                /\ IF deleteFailure(res) = "unregister"
                   THEN /\ fl' = [fl EXCEPT ![f] =
                                  [@ EXCEPT !.pc = "rm_unregister",
                                            !.ops = Append(@, "unregister")]]
                        /\ UNCHANGED <<cont, chans>>
                   ELSE removeRevert(f)
    /\ UNCHANGED <<subs, backendVars>>

(* vm.Unregister returns; on an error Remove returns it at once.           *)
RemoveUnregister(f, ok) ==
    /\ fl[f].pc = "rm_unregister"
    /\ LET id == fl[f].h.id
       IN  IF ok
           THEN /\ vms' = [vms EXCEPT ![id].exists = FALSE]
                /\ fl' = [fl EXCEPT ![f] =
                          [@ EXCEPT !.pc = "rm_files",
                                    !.evts = @ \cup {"unregistered"},
                                    !.ops = Append(@, "deletefile")]]
           ELSE /\ removeReturn(f, "error")
                /\ UNCHANGED vms
    /\ UNCHANGED <<cont, chans, subs, backendVars>>

(* DeleteDatastoreFile returns; its error is only logged.  The container   *)
(* is removed from the cache and Remove returns nil.                       *)
RemoveFiles(f, ok) ==
    /\ fl[f].pc = "rm_files"
    /\ cont' = evict(fl[f].h.id)
    /\ removeReturn(f, "ok")
    /\ UNCHANGED <<vms, chans, subs, backendVars>>

(* ------------------------------ Endpoint ------------------------------- *)
(* newEndpoint: an Endpoint with a fresh port map and a fresh alias map.   *)
newEndpoint(n, r, container, scope) ==
    [n EXCEPT !.ports = Append(@, {}),
              !.aliases = Append(@, [c \in Containers |-> <<>>]),
              !.ep[r] = [made |-> TRUE, container |-> container,
                         scope |-> scope, ports |-> Len(n.ports) + 1,
                         aliases |-> Len(n.aliases) + 1]]

(* Endpoint.addPort: an error for a port that is exposed already.          *)
addPort(n, r, p) ==
    IF p \in n.ports[n.ep[r].ports]
    THEN n
    ELSE [n EXCEPT !.ports[n.ep[r].ports] = @ \cup {p}]

(* Endpoint.getAliases: the aliases for container con, "" the Endpoint's   *)
(* own.                                                                    *)
getAliases(n, r, con) ==
    n.aliases[n.ep[r].aliases][IF con = "" THEN n.ep[r].container ELSE con]

(* The alias of the name a among as, badAlias if there is none.            *)
findAlias(as, a) ==
    IF \E i \in 1..Len(as) : as[i].Name = a
    THEN as[CHOOSE i \in 1..Len(as) :
                as[i].Name = a /\ \A j \in 1..(i - 1) : as[j].Name # a]
    ELSE badAlias

(* addAlias without the lookup of the name among the aliases present.      *)
addAlias_noLookup(n, r, con, a) ==
    LET c == IF con = "" THEN n.ep[r].container ELSE con
        as == n.aliases[n.ep[r].aliases][c]
        na == [Name |-> a, Container |-> c, ep |-> r]
    IN  CASE a = "" -> [n EXCEPT !.alias = badAlias, !.present = FALSE]
          [] OTHER ->
                [n EXCEPT !.aliases[n.ep[r].aliases][c] = Append(as, na),
                          !.alias = na, !.present = FALSE]

(* Endpoint.addAlias: the alias returned and whether it was present.       *)
addAlias(n, r, con, a) ==
    LET c == IF con = "" THEN n.ep[r].container ELSE con
        as == n.aliases[n.ep[r].aliases][c]
        found == findAlias(as, a)
        na == [Name |-> a, Container |-> c, ep |-> r]
    IN  CASE a = "" -> [n EXCEPT !.alias = badAlias, !.present = FALSE]
          [] found # badAlias ->
                [n EXCEPT !.alias = found, !.present = TRUE]
          [] OTHER ->
                [n EXCEPT !.aliases[n.ep[r].aliases][c] = Append(as, na),
                          !.alias = na, !.present = FALSE]

(* Endpoint.copy: the struct is copied, and with it the reference to the   *)
(* alias map; the port map is a new one with the same ports.               *)
copy(n, r, other) ==
    [n EXCEPT !.ports = Append(@, n.ports[n.ep[r].ports]),
              !.ep[other] = [n.ep[r] EXCEPT !.ports = Len(n.ports) + 1]]

(* alias.scopedName: the parts Sprintf joins with ":".                     *)
scopedName(n, al) ==
    LET own == getAliases(n, al.ep, "")
    IN  IF \E i \in 1..Len(own) : own[i].Name = al.Name
        THEN <<n.ep[al.ep].scope, al.Name>>
        ELSE <<n.ep[al.ep].scope, n.ep[al.ep].container, al.Name>>

AddPort(r, p) ==
    /\ endpoints.ep[r].made
    /\ endpoints' = addPort(endpoints, r, p)
    /\ UNCHANGED <<vms, cont, fl, chans, subs, apiVars, observed, create>>

AddAlias(r, con, a) ==
    /\ endpoints.ep[r].made
    /\ endpoints' = addAlias(endpoints, r, con, a)
    /\ UNCHANGED <<vms, cont, fl, chans, subs, apiVars, observed, create>>

(* other = e.copy(), once.                                                 *)
Copy ==
    /\ endpoints.ep["e"].made /\ ~endpoints.ep["other"].made
    /\ endpoints' = copy(endpoints, "e", "other")
    /\ UNCHANGED <<vms, cont, fl, chans, subs, apiVars, observed, create>>

(* --------------------------- specifications ---------------------------- *)

OOB(ids) == \E id \in ids : PowerOffOOB(id) \/ PowerOnOOB(id) \/ ModifyOOB(id)

(* Handles and the create, stop and start steps of Commit, for handles on  *)
(* the containers ids; specs tells whether handles may carry a             *)
(* reconfigure.                                                            *)
Lifecycle(f, ids, specs) ==
    \/ \E id \in ids, ok \in BOOLEAN : NewHandle(f, id, ok)
    \/ \E id \in ids, spec \in BOOLEAN : CreateHandle(f, id, spec)
    \/ \E sess \in BOOLEAN, t \in Targets, sp \in specs, fo \in BOOLEAN :
          CommitBegin(f, sess, t, sp, fo)
    \/ \E ok \in BOOLEAN : CreateReturn(f, ok)
    \/ StopPhase(f)
    \/ \E ok \in BOOLEAN, bump \in {0, 1} : StopReturn(f, ok, bump)
    \/ \E ok \in BOOLEAN : StopRefreshReturn(f, ok)
    \/ ReconfPhase(f)
    \/ StartPhase(f)
    \/ \E ok \in BOOLEAN : StartReturn(f, ok)

(* The reconfigure loop of Commit.                                         *)
Reconfigure(f) ==
    \/ \E ok \in BOOLEAN : ReconfRefreshReturn(f, ok)
    \/ \E o \in ReconfOutcomes : ReconfReturn(f, o)

CommitStep(f, ids) == Lifecycle(f, ids, BOOLEAN) \/ Reconfigure(f)

(* One request at a time, against an infrastructure that changes           *)
(* out of band.                                                            *)
Next == OOB({"c1"}) \/ CommitStep(1, {"c1"})

Spec == Init /\ [][Next]_vars

(* The steps of a Commit that is under way: local steps and the returns    *)
(* of the infrastructure calls it waits for.                               *)
CommitProgress(f) ==
    \/ \E ok \in BOOLEAN : CreateReturn(f, ok)
    \/ StopPhase(f)
    \/ \E ok \in BOOLEAN, bump \in {0, 1} : StopReturn(f, ok, bump)
    \/ \E ok \in BOOLEAN : StopRefreshReturn(f, ok)
    \/ ReconfPhase(f)
    \/ StartPhase(f)
    \/ \E ok \in BOOLEAN : StartReturn(f, ok)
    \/ Reconfigure(f)

(* Spec with every infrastructure call returning in the end.  The          *)
(* infrastructure answers at most MaxAttempts reconfigure calls of one     *)
(* Commit, so only finitely many with ConcurrentAccess.                    *)
SpecLive == Spec /\ WF_vars(CommitProgress(1))

(* The state machine and its subscribers, with Commits changing the state  *)
(* alongside direct SetState calls.                                        *)
WaitStates == {StateRunning, StateStopping, StateStopped}

NextState ==
    \/ Lifecycle(1, {"c1"}, {FALSE})
    \/ \E s \in WaitStates : WaitForState("c1", s)
    \/ \E s \in WaitStates : SetState("c1", s)

SpecState == Init /\ [][NextState]_vars

(* The containers of the port-mapping runs exist, created and known to    *)
(* the API server: c1 with any of the HostConfigs, c2 publishing its port  *)
(* 80 on host port 8083.                                                   *)
InitPorts ==
    /\ vms = [c \in Containers |->
              [exists |-> TRUE, power |-> PoweredOff, cv |-> 0, made |-> 1]]
    /\ cont = [c \in Containers |->
               newContainer([NoHandle EXCEPT !.id = c, !.vm = TRUE])]
    /\ fl = [f \in Flows |-> IdleFlow]
    /\ chans = [ch \in 1..MaxChans |-> 0]
    /\ subs = [handed |-> {}, got |-> NoSub]
    /\ bk = [f \in Flows |-> IdleBackend]
    /\ nat = {}
    /\ containerByPort = NoPorts
    /\ \E hc \in HostConfigs :
          persona = [c \in Containers |->
              [known |-> TRUE, started |-> FALSE,
               bindings |-> IF c = "c1" THEN hc
                            ELSE {<<Binding("tcp", 80, 8083)>>}]]
    /\ bound = [c \in Containers |-> FALSE]
    /\ allocated = {}
    /\ endpoints = NoEndpoints
    /\ observed = NoBase
    /\ create = NoCreate

(* The unrolled port maps of the HostConfigs, and the places at which a    *)
(* run over one of them may meet a fault (0 for none).                     *)
PortMaps ==
    UNION { unrollPortMap(hc) : hc \in HostConfigs \cup {AnyPortConfig} }

FailPoints == UNION { 0..Len(o) : o \in PortMaps }

(* The steps of a Commit issued by containerStart or containerStop.        *)
PowerSteps(f) ==
    \/ StopPhase(f)
    \/ \E ok \in BOOLEAN, bump \in {0, 1} : StopReturn(f, ok, bump)
    \/ \E ok \in BOOLEAN : StopRefreshReturn(f, ok)
    \/ ReconfPhase(f)
    \/ StartPhase(f)
    \/ \E ok \in BOOLEAN : StartReturn(f, ok)

(* containerStart and containerStop requests on the containers ids, their  *)
(* steps; oks are the outcomes of the calls they make (FALSE an error)     *)
(* and fps the places at which the NAT facility may report a fault.        *)
Requests(f, ids, oks, fps) ==
    \/ \E id \in ids, hok \in oks, bok \in oks, o \in PortMaps :
          ContainerStartBegin(f, id, hok, bok, o)
    \/ \E ok \in oks : CleanupCheck(f, ok)
    \/ \E ok \in oks, o \in PortMaps, k \in fps : StartMap(f, ok, o, k)
    \/ BackendCommit(f)
    \/ \E o \in PortMaps, k \in fps : ContainerStartReturn(f, o, k)
    \/ \E id \in ids, hok \in oks, iok \in oks :
          ContainerStopBegin(f, id, hok, iok)
    \/ \E u \in IF FALSE \in oks THEN {"ok", "notfound", "error"} ELSE {"ok"},
          o \in PortMaps, k \in fps, ok \in oks : StopUnmap(f, u, o, k, ok)
    \/ ContainerStopReturn(f)

(* cleanupPortBindings reclaims the ports of a container found not         *)
(* running.                                                                *)
Reclaim(f, fps) == \E o \in PortMaps, k \in fps : CleanupUnmap(f, o, k)

Backend(f) ==
    Requests(f, Containers, BOOLEAN, FailPoints) \/ Reclaim(f, FailPoints)

(* One API request at a time on two containers, with VMs powered off out   *)
(* of band.                                                                *)
NextPorts ==
    \/ \E id \in Containers : PowerOffOOB(id)
    \/ Backend(1)
    \/ PowerSteps(1)

SpecPorts == InitPorts /\ [][NextPorts]_vars

(* Container c1 is created with a binding that names no host port, and is  *)
(* started and stopped, one request at a time.                             *)
InitAlloc ==
    /\ vms = [c \in Containers |->
              [exists |-> TRUE, power |-> PoweredOff, cv |-> 0, made |-> 1]]
    /\ cont = [c \in Containers |->
               newContainer([NoHandle EXCEPT !.id = c, !.vm = TRUE])]
    /\ fl = [f \in Flows |-> IdleFlow]
    /\ chans = [ch \in 1..MaxChans |-> 0]
    /\ subs = [handed |-> {}, got |-> NoSub]
    /\ bk = [f \in Flows |-> IdleBackend]
    /\ nat = {}
    /\ containerByPort = NoPorts
    /\ persona = [c \in Containers |->
           [known |-> TRUE, started |-> FALSE,
            bindings |-> IF c = "c1" THEN AnyPortConfig
                         ELSE {<<Binding("tcp", 80, 8083)>>}]]
    /\ bound = [c \in Containers |-> FALSE]
    /\ allocated = {}
    /\ endpoints = NoEndpoints
    /\ observed = NoBase
    /\ create = NoCreate

NextAlloc ==
    \/ PowerOffOOB("c1")
    \/ Requests(1, {"c1"}, BOOLEAN, FailPoints)
    \/ PowerSteps(1)

SpecAlloc == InitAlloc /\ [][NextAlloc]_vars

(* Two requests at a time: flow 1 starts and stops c1, flow 2 starts and   *)
(* stops c2, both publishing port 80 on host port 8083; c2 may be powered  *)
(* off out of band; no call fails but the power operations.                *)
InitRace ==
    /\ InitPorts
    /\ persona["c1"].bindings = {<<Binding("tcp", 80, 8083)>>}

NextRace ==
    \/ PowerOffOOB("c2")
    \/ Requests(1, {"c1"}, {TRUE}, {0})
    \/ Requests(2, {"c2"}, {TRUE}, {0})
    \/ Reclaim(1, {0})
    \/ Reclaim(2, {0})
    \/ PowerSteps(1)
    \/ PowerSteps(2)

SpecRace == InitRace /\ [][NextRace]_vars

(* Two created containers, each with one of the HostConfigs.               *)
InitUnmap ==
    /\ vms = [c \in Containers |->
              [exists |-> TRUE, power |-> PoweredOff, cv |-> 0, made |-> 1]]
    /\ cont = [c \in Containers |->
               newContainer([NoHandle EXCEPT !.id = c, !.vm = TRUE])]
    /\ fl = [f \in Flows |-> IdleFlow]
    /\ chans = [ch \in 1..MaxChans |-> 0]
    /\ subs = [handed |-> {}, got |-> NoSub]
    /\ bk = [f \in Flows |-> IdleBackend]
    /\ nat = {}
    /\ containerByPort = NoPorts
    /\ \E hc1 \in HostConfigs, hc2 \in HostConfigs :
          persona = [c \in Containers |->
              [known |-> TRUE, started |-> FALSE,
               bindings |-> IF c = "c1" THEN hc1 ELSE hc2]]
    /\ bound = [c \in Containers |-> FALSE]
    /\ allocated = {}
    /\ endpoints = NoEndpoints
    /\ observed = NoBase
    /\ create = NoCreate

(* mapPorts for either container in any order and with any fault, then     *)
(* unmapPorts twice in a row for one HostConfig with explicit host ports.  *)
NextUnmap ==
    \/ \E id \in Containers, o \in PortMaps, k \in FailPoints :
          MapCall(1, id, o, k)
    \/ \E id \in Containers, o \in PortMaps, k \in FailPoints :
          UnmapCall(1, id, o, k)
    \/ \E o \in PortMaps, k \in FailPoints : UnmapAgain(1, o, k)

SpecUnmap == InitUnmap /\ [][NextUnmap]_vars

(* The outcomes of the infrastructure calls of Remove.                     *)
DSPathResults == {"ok", "ManagedObjectNotFound", "error"}
DeleteResults ==
    {"ok", "nofault", "InvalidState", "ManagedObjectNotFound", "fault"}

(* The states of a container at rest.                                      *)
RestStates == {StateCreated, StateRunning, StateStopped}

(* Two containers in the cache, each at rest with its VM powered as the    *)
(* state says.                                                             *)
InitRemove ==
    /\ \E st \in [Containers -> RestStates] :
          /\ vms = [c \in Containers |->
                    [exists |-> TRUE,
                     power |-> IF st[c] = StateRunning THEN PoweredOn
                               ELSE PoweredOff,
                     cv |-> 0, made |-> 1]]
          /\ cont = [c \in Containers |->
                     [newContainer([NoHandle EXCEPT !.id = c, !.vm = TRUE])
                         EXCEPT !.state = st[c]]]
    /\ fl = [f \in Flows |-> IdleFlow]
    /\ chans = [ch \in 1..MaxChans |-> 0]
    /\ subs = [handed |-> {}, got |-> NoSub]
    /\ bk = [f \in Flows |-> IdleBackend]
    /\ nat = {}
    /\ containerByPort = NoPorts
    /\ persona = [c \in Containers |-> NoVic]
    /\ bound = [c \in Containers |-> FALSE]
    /\ allocated = {}
    /\ endpoints = NoEndpoints
    /\ observed = NoBase
    /\ create = NoCreate

RemoveStep(f) ==
    \/ \E id \in Containers : RemoveBegin(f, id)
    \/ \E res \in DSPathResults : RemoveDSPath(f, res)
    \/ \E res \in DeleteResults : RemoveDelete(f, res)
    \/ \E ok \in BOOLEAN : RemoveUnregister(f, ok)
    \/ \E ok \in BOOLEAN : RemoveFiles(f, ok)

(* Two callers of Remove, and VMs powered on and off and destroyed out of  *)
(* band.                                                                   *)
NextRemove ==
    \/ \E id \in Containers :
          PowerOffOOB(id) \/ PowerOnOOB(id) \/ DestroyOOB(id)
    \/ \E f \in Flows : RemoveStep(f)

SpecRemove == InitRemove /\ [][NextRemove]_vars

(* A creation Handle for id is in use: container IDs are generated, so no  *)
(* second creation Handle is made for the ID meanwhile.                    *)
creating(id) ==
    \E g \in Flows :
       /\ fl[g].pc \notin {"idle", "done"} \cup RemovePcs
       /\ fl[g].h.id = id
       /\ ~fl[g].h.vm \/ fl[g].creation

(* GetContainer: NewHandle on the cached container; its Refresh waits for  *)
(* the mutex a Remove holds.                                               *)
GetContainer(f, id, ok) == NewHandle(f, id, ok) /\ ~removing(id)

(* A creation Handle with a spec for an ID that is not in use.             *)
NewCreationHandle(f, id) ==
    CreateHandle(f, id, TRUE) /\ ~creating(id) /\ ~cont[id].cached

(* The create-VM task returns; the ID gets at most MaxMade VMs.            *)
CreateVMReturn(f, ok) ==
    CreateReturn(f, ok) /\ vms[fl[f].h.id].made < MaxMade

(* Creation, Commits to Running and to Stopped without a spec, and Remove, *)
(* by two callers on one container ID, with the VM powered off out of      *)
(* band.                                                                   *)
StateStep(f) ==
    \/ \E ok \in BOOLEAN : GetContainer(f, "c1", ok)
    \/ NewCreationHandle(f, "c1")
    \/ \E t \in Targets : CommitBegin(f, TRUE, t, FALSE, TRUE)
    \/ \E ok \in BOOLEAN : CreateVMReturn(f, ok)
    \/ StopPhase(f)
    \/ \E ok \in BOOLEAN : StopReturn(f, ok, 0)
    \/ \E ok \in BOOLEAN : StopRefreshReturn(f, ok)
    \/ ReconfPhase(f)
    \/ StartPhase(f)
    \/ \E ok \in BOOLEAN : StartReturn(f, ok)
    \/ RemoveStep(f)

NextStates ==
    \/ PowerOffOOB("c1")
    \/ \E f \in Flows : StateStep(f)

SpecStates == Init /\ [][NextStates]_vars

(* The Endpoint e of container c1 on the scope, with nothing exposed.      *)
InitEndpoint ==
    /\ vms = [c \in Containers |-> NoVM]
    /\ cont = [c \in Containers |-> NoContainer]
    /\ fl = [f \in Flows |-> IdleFlow]
    /\ chans = [ch \in 1..MaxChans |-> 0]
    /\ subs = [handed |-> {}, got |-> NoSub]
    /\ bk = [f \in Flows |-> IdleBackend]
    /\ nat = {}
    /\ containerByPort = NoPorts
    /\ persona = [c \in Containers |-> NoVic]
    /\ bound = [c \in Containers |-> FALSE]
    /\ allocated = {}
    /\ endpoints = newEndpoint(NoEndpoints, "e", "c1", ScopeName)
    /\ observed = NoBase
    /\ create = NoCreate

(* Ports and aliases are added to e, e is copied, and ports and aliases    *)
(* are added to e and to the copy.                                         *)
NextEndpoint ==
    \/ \E r \in EndpointRefs, p \in ExposedPorts : AddPort(r, p)
    \/ \E r \in EndpointRefs, con \in Containers \cup {""},
          a \in AliasNames \cup {""} : AddAlias(r, con, a)
    \/ Copy

SpecEndpoint == InitEndpoint /\ [][NextEndpoint]_vars

(* The create requests: a HostConfig with up to MaxBindings port bindings, *)
(* or none.                                                                *)
CreateConfigs ==
    { [name |-> n, hostConfig |-> TRUE, pbs |-> pbs, user |-> u, cmd |-> c] :
        n \in Containers,
        pbs \in UNION { [1..k -> PortBindings] : k \in 0..MaxBindings },
        u \in {"", "nobody"}, c \in BOOLEAN }
    \cup { [NoConfig EXCEPT !.name = n] : n \in Containers }

(* ContainerCreate up to validateCreateConfig: the name is looked up in    *)
(* the cache, the image is fetched and the config is validated with the    *)
(* addresses the external interface gave, none when the lookup failed.     *)
ContainerCreateBegin(ips, imageOK) ==
    /\ create.pc = "idle"
    /\ LET config == create.config
           err == IF persona[config.name].known THEN "Conflict"
                  ELSE IF ~imageOK THEN "image not found"
                  ELSE validateCreateConfig(config, ips)
       IN  create' = [create EXCEPT
                       !.pc = IF err = "" THEN "validated" ELSE "done",
                       !.ips = ips, !.ret = err]
    /\ UNCHANGED <<vms, cont, fl, chans, subs, apiVars, endpoints, observed>>

(* containerCreate and the rest of ContainerCreate: the proxy makes the    *)
(* handle, configures it and commits it; "handle" is a failure to make the *)
(* handle, "commit" a failure after it was made.  The container created    *)
(* is added to the cache with the HostConfig of the request.               *)
ContainerCreateProxy(res) ==
    /\ create.pc = "validated"
    /\ create' = [create EXCEPT
                    !.pc = "done",
                    !.ret = IF res = "ok" THEN "ok" ELSE "proxy error",
                    !.handles = IF res = "handle" THEN 0 ELSE 1,
                    !.committed = (res = "ok")]
    /\ persona' =
          IF res = "ok"
          THEN [persona EXCEPT ![create.config.name] =
                  [known |-> TRUE, started |-> FALSE,
                   bindings |->
                      { <<Binding("tcp", 80, create.config.pbs[i].HostPort)>> :
                          i \in 1..Len(create.config.pbs) }]]
          ELSE persona
    /\ UNCHANGED <<vms, cont, fl, chans, subs, bk, nat, containerByPort,
                   bound, allocated, endpoints, observed>>

(* A ContainerCreate request has arrived; the cache is empty or holds c1.  *)
InitCreate ==
    /\ vms = [c \in Containers |-> NoVM]
    /\ cont = [c \in Containers |-> NoContainer]
    /\ fl = [f \in Flows |-> IdleFlow]
    /\ chans = [ch \in 1..MaxChans |-> 0]
    /\ subs = [handed |-> {}, got |-> NoSub]
    /\ bk = [f \in Flows |-> IdleBackend]
    /\ nat = {}
    /\ containerByPort = NoPorts
    /\ \E known \in BOOLEAN :
          persona = [c \in Containers |->
                       IF c = "c1" THEN [NoVic EXCEPT !.known = known]
                       ELSE NoVic]
    /\ bound = [c \in Containers |-> FALSE]
    /\ allocated = {}
    /\ endpoints = NoEndpoints
    /\ observed = NoBase
    /\ \E config \in CreateConfigs :
          create = [NoCreate EXCEPT !.config = config]

NextCreate ==
    \/ \E ips \in {{}, {ExternalIP}}, imageOK \in BOOLEAN :
          ContainerCreateBegin(ips, imageOK)
    \/ \E res \in {"ok", "handle", "commit"} : ContainerCreateProxy(res)

SpecCreate == InitCreate /\ [][NextCreate]_vars

(* The Started strings of the sessions of a containerBase.                 *)
SessionLists ==
    UNION { [1..n -> {"", "started"}] : n \in 0..MaxSessions }

(* newContainer(base): the Container gets its state.                       *)
NewContainerFrom ==
    /\ ~observed.built
    /\ observed' = [observed EXCEPT !.built = TRUE,
                            !.state = newContainerState(observed.power,
                                                        observed.sessions)]
    /\ UNCHANGED <<vms, cont, fl, chans, subs, apiVars, endpoints, create>>

(* A containerBase with any power state, or none, and any sessions.        *)
InitNew ==
    /\ vms = [c \in Containers |-> NoVM]
    /\ cont = [c \in Containers |-> NoContainer]
    /\ fl = [f \in Flows |-> IdleFlow]
    /\ chans = [ch \in 1..MaxChans |-> 0]
    /\ subs = [handed |-> {}, got |-> NoSub]
    /\ bk = [f \in Flows |-> IdleBackend]
    /\ nat = {}
    /\ containerByPort = NoPorts
    /\ persona = [c \in Containers |-> NoVic]
    /\ bound = [c \in Containers |-> FALSE]
    /\ allocated = {}
    /\ endpoints = NoEndpoints
    /\ create = NoCreate
    /\ \E power \in {PoweredOn, PoweredOff, Suspended, NilRuntime},
          sessions \in SessionLists :
          observed = [NoBase EXCEPT !.power = power, !.sessions = sessions]

NextNew == NewContainerFrom

SpecNew == InitNew /\ [][NextNew]_vars

(* c.RefreshFromHandle(h) is called for the Handle of flow f.              *)
RefreshFromHandleCall(f) ==
    /\ fl[f].pc = "ready"
    /\ cont[fl[f].h.id].cached
    /\ cont' = [cont EXCEPT ![fl[f].h.id] =
                   RefreshFromHandle(cont[fl[f].h.id], fl[f].h)]
    /\ fl' = [fl EXCEPT ![f].pc = "done", ![f].refreshed = @ + 1]
    /\ UNCHANGED <<vms, chans, subs, backendVars>>

(* A cached Container c1 with any snapshot, any state and a subscription   *)
(* or none, and a Handle for it with any snapshot.                         *)
InitRefresh ==
    /\ vms = [c \in Containers |->
                IF c = "c1" THEN [NoVM EXCEPT !.exists = TRUE, !.cv = MaxCV,
                                              !.made = 1]
                ELSE NoVM]
    /\ \E cv \in {NilConfig} \cup 0..MaxCV,
          power \in {PoweredOn, PoweredOff, NilRuntime},
          state \in {StateCreated, StateRunning, StateStopped},
          ch \in {0, 1} :
          cont = [c \in Containers |->
                    IF c = "c1"
                    THEN [cached |-> TRUE, state |-> state, vm |-> TRUE,
                          power |-> power, cv |-> cv,
                          newStateEvents |->
                             [NoEvents EXCEPT ![StateStarting] = ch]]
                    ELSE NoContainer]
    /\ \E cv \in {NilConfig} \cup 0..MaxCV,
          power \in {PoweredOn, PoweredOff, NilRuntime} :
          fl = [f \in Flows |->
                  IF f = 1
                  THEN [IdleFlow EXCEPT !.pc = "ready", !.cnil = FALSE,
                           !.h = [NoHandle EXCEPT !.vm = TRUE, !.power = power,
                                                  !.cv = cv]]
                  ELSE IdleFlow]
    /\ chans = [ch \in 1..MaxChans |-> 0]
    /\ subs = [handed |-> {}, got |-> NoSub]
    /\ bk = [f \in Flows |-> IdleBackend]
    /\ nat = {}
    /\ containerByPort = NoPorts
    /\ persona = [c \in Containers |-> NoVic]
    /\ bound = [c \in Containers |-> FALSE]
    /\ allocated = {}
    /\ endpoints = NoEndpoints
    /\ observed = NoBase
    /\ create = NoCreate

NextRefresh == RefreshFromHandleCall(1)

SpecRefresh == InitRefresh /\ [][NextRefresh]_vars

(* Creation Handles and their Commits by two callers that were given the   *)
(* same container ID, each with a spec and a session.                      *)
DuplicateStep(f) ==
    \/ CreateHandle(f, "c1", TRUE)
    \/ \E t \in Targets : CommitBegin(f, TRUE, t, FALSE, TRUE)
    \/ \E ok \in BOOLEAN : CreateVMReturn(f, ok)
    \/ StopPhase(f)
    \/ \E ok \in BOOLEAN : StopReturn(f, ok, 0)
    \/ \E ok \in BOOLEAN : StopRefreshReturn(f, ok)
    \/ ReconfPhase(f)
    \/ StartPhase(f)
    \/ \E ok \in BOOLEAN : StartReturn(f, ok)

NextDuplicate == \E f \in Flows : DuplicateStep(f)

SpecDuplicate == Init /\ [][NextDuplicate]_vars

(* A containerStart request of flow f for container id and its steps, the  *)
(* Commit to Running included; no call fails but the power-on.             *)
StartRequest(f, id) ==
    \/ \E o \in PortMaps : ContainerStartBegin(f, id, TRUE, TRUE, o)
    \/ CleanupCheck(f, TRUE)
    \/ \E o \in PortMaps : CleanupUnmap(f, o, 0)
    \/ \E o \in PortMaps : StartMap(f, TRUE, o, 0)
    \/ BackendCommit(f)
    \/ StopPhase(f)
    \/ ReconfPhase(f)
    \/ StartPhase(f)
    \/ \E ok \in BOOLEAN : StartReturn(f, ok)
    \/ \E o \in PortMaps : ContainerStartReturn(f, o, 0)

(* Two containerStart requests at a time, flow 1 for c1 and flow 2 for     *)
(* c2, both publishing port 80 on host port 8083; nothing is stopped or    *)
(* powered off.                                                            *)
NextStarts == StartRequest(1, "c1") \/ StartRequest(2, "c2")

SpecStarts == InitRace /\ [][NextStarts]_vars

(* ------------------------------ properties ----------------------------- *)
Done(f) == fl[f].pc = "done"
Has(ops, x) == \E i \in 1..Len(ops) : ops[i] = x
State(f) == cont[fl[f].h.id].state

(* C1: a Commit that returns success with target Running leaves            *)
(* CurrentState() = Running, and with target Stopped leaves Stopped.       *)
C1_CommitReachesTarget ==
    \A f \in Flows :
        Done(f) /\ fl[f].ret = "ok" /\ fl[f].h.target # ""
            => State(f) = fl[f].h.target

(* Rank of an infrastructure operation in Commit's fixed order.            *)
Rank(op) ==
    CASE op = "create" -> 1
      [] op = "stop" -> 2
      [] op = "reconfigure" -> 3
      [] op = "start" -> 4
      [] OTHER -> 0

(* C2: within one Commit the operations are issued in the order create,    *)
(* stop, reconfigure, start; while the stop is in flight no reconfigure    *)
(* or power-on has been issued, and while a reconfigure is in flight no    *)
(* power-on has been issued.                                               *)
C2_OpsOrdered ==
    \A f \in Flows :
        LET ops == fl[f].ops
        IN  /\ \A i, j \in 1..Len(ops) :
                 i < j /\ Rank(ops[i]) > 0 /\ Rank(ops[j]) > 0
                     => Rank(ops[i]) <= Rank(ops[j])
            /\ fl[f].pc \in {"stop", "stop_refresh"}
                 => ~Has(ops, "reconfigure") /\ ~Has(ops, "start")
            /\ fl[f].pc \in {"reconf", "reconf_refresh"} => ~Has(ops, "start")

C2_Witness ==
    \E f \in Flows :
        /\ Done(f) /\ fl[f].ret = "ok"
        /\ Has(fl[f].ops, "reconfigure")
        /\ fl[f].ops[Len(fl[f].ops)] = "start"

(* C3: every reconfigure attempt that follows a concurrent-modification    *)
(* fault is stamped with a change-version re-read after that fault, and a  *)
(* Commit whose reconfigure failed with another fault has returned that    *)
(* error with the failed attempt as its last operation.                    *)
C3_RetryRereadsVersion ==
    \A f \in Flows :
        /\ \A i \in 2..Len(fl[f].stamps) : fl[f].stamps[i].reread
        /\ fl[f].failed = "reconfigure"
             => /\ Done(f) /\ fl[f].ret = "reconfigure"
                /\ fl[f].ops[Len(fl[f].ops)] = "reconfigure"

(* C4: a creation Commit without a spec or without a session returns an    *)
(* error, issues no infrastructure call and leaves the cache unchanged.    *)
C4_InvalidCreateRejected ==
    [][\A f \in Flows :
          (/\ fl[f].pc = "ready" /\ fl'[f].pc # "ready"
           /\ ~fl[f].h.vm
           /\ ~fl[f].h.spec \/ ~fl'[f].sess)
          => /\ fl'[f].pc = "done" /\ fl'[f].ret \notin {"", "ok"}
             /\ fl'[f].ops = <<>>
             /\ cont' = cont /\ vms' = vms]_vars

C4_Witness ==
    \E f \in Flows :
        /\ Done(f) /\ fl[f].creation /\ fl[f].ops = <<>>
        /\ fl[f].ret = "nosession" /\ fl[f].h.spec /\ ~fl[f].sess

(* C5: a creation Commit for an ID that is in the cache returns an error,  *)
(* issues no create-VM call and leaves the cache entry unchanged; no ID    *)
(* ever gets a second VM.                                                  *)
C5_DuplicateCreateRejected ==
    [][/\ \A f \in Flows :
             (/\ fl[f].pc = "ready" /\ fl'[f].pc # "ready"
              /\ ~fl[f].h.vm /\ cont[fl[f].h.id].cached)
             => /\ fl'[f].pc = "done" /\ fl'[f].ret \notin {"", "ok"}
                /\ fl'[f].ops = <<>>
                /\ cont' = cont /\ vms' = vms
       /\ \A id \in Containers : vms'[id].made <= 1]_vars

C5_Witness ==
    \E f \in Flows :
        /\ Done(f) /\ fl[f].creation /\ fl[f].ret = "exists"
        /\ cont[fl[f].h.id].cached /\ vms[fl[f].h.id].made = 1

(* C6: the first failing sub-step ends the Commit: it has returned that    *)
(* step's error and the failed call is the last one it issued.             *)
C6_FirstFailureAborts ==
    \A f \in Flows :
        fl[f].failed # ""
            => /\ Done(f) /\ fl[f].ret = fl[f].failed
               /\ fl[f].ops[Len(fl[f].ops)] = fl[f].failed
               /\ fl[f].failed = "create" => fl[f].ops = <<"create">>
               /\ fl[f].failed \in {"stop", "refresh"}
                    => ~Has(fl[f].ops, "reconfigure") /\ ~Has(fl[f].ops, "start")
               /\ fl[f].failed = "reconfigure" => ~Has(fl[f].ops, "start")

C6_Witness ==
    \E f \in Flows :
        /\ Done(f) /\ fl[f].failed = "reconfigure"
        /\ fl[f].h.target = StateRunning /\ fl[f].h.power # PoweredOn

C8_FailedStopNotRestored ==
    \A f \in Flows :
        Done(f) /\ fl[f].failed = "stop" => State(f) # fl[f].finalState

(* C8 as amended: after a failed stop the cached state is again the state  *)
(* the container had before the stop attempt, not Stopping, and Commit     *)
(* has returned the error.                                                 *)
C8_FailedStopRestored ==
    \A f \in Flows :
        Done(f) /\ fl[f].failed = "stop"
            => /\ State(f) = fl[f].finalState
               /\ State(f) # StateStopping
               /\ fl[f].ret = "stop"

C8_Witness ==
    \E f \in Flows :
        /\ Done(f) /\ fl[f].failed = "stop"
        /\ fl[f].finalState = StateRunning /\ State(f) = StateRunning

(* C9: WaitForState(s) returns the closed channel exactly when the state   *)
(* is s; otherwise it returns an open channel registered for s.  A channel *)
(* handed out for s is closed at most once, only by a change of the state  *)
(* to s, which also removes the subscription, and every change to s closes *)
(* the channel registered for s.                                           *)
C9_WaitForStateSignalsOnce ==
    [][/\ subs' # subs =>
            LET g == subs'.got
            IN  /\ (cont[g.id].state = g.s) <=> (g.ch = closedEventChannel)
                /\ g.ch # closedEventChannel
                     => /\ chans[g.ch] = 0
                        /\ cont'[g.id].newStateEvents[g.s] = g.ch
       /\ \A ch \in 1..MaxChans : chans'[ch] <= 1
       /\ \A x \in subs'.handed :
            /\ chans'[x.ch] # chans[x.ch]
                 => /\ cont[x.id].state # x.s
                    /\ cont'[x.id].state = x.s
                    /\ cont'[x.id].newStateEvents[x.s] = 0
            /\ (/\ x \in subs.handed /\ chans[x.ch] = 0
                /\ cont[x.id].state # x.s /\ cont'[x.id].state = x.s)
                 => chans'[x.ch] = 1]_vars

C9_Witness ==
    \E x, y \in subs.handed :
        /\ x.id = y.id /\ x.s # y.s
        /\ chans[x.ch] = 1 /\ chans[y.ch] = 0
        /\ cont[x.id].state \notin {x.s, y.s}

(* The bindings of a container's HostConfig.                               *)
bindingsOf(id) ==
    UNION { { pb[i] : i \in 1..Len(pb) } : pb \in persona[id].bindings }

(* Every binding of id has its rule to the endpoint of id and the index    *)
(* names id as the owner of the host port.                                 *)
Mapped(id) ==
    \A b \in bindingsOf(id) :
        /\ [proto |-> b.proto, hport |-> b.hport,
            ip |-> endpointAddress(id), cport |-> b.cport] \in nat
        /\ containerByPort[b.hport] = id

(* No binding of id has a rule to the endpoint of id left, nor an index    *)
(* entry that names id.                                                    *)
Unmapped(id) ==
    \A b \in bindingsOf(id) :
        /\ \A r \in rulesFor(nat, b.proto, b.hport) :
               r.ip # endpointAddress(id)
        /\ containerByPort[b.hport] # id

(* The request of flow f returns r in this step.                           *)
Returns(f, op, r) ==
    /\ bk[f].op = op /\ bk[f].pc # "done"
    /\ bk'[f].pc = "done" /\ bk'[f].ret = r

(* C10: when containerStart returns nil, every binding of the container    *)
(* is mapped (rule to its endpoint address and container port, index       *)
(* entry naming it); when a containerStop of a started container returns   *)
(* nil, none of its bindings has a rule or an index entry left.            *)
C10_StartMapsStopUnmaps ==
    [][\A f \in Flows :
          /\ Returns(f, "start", "ok") => Mapped(bk[f].id)'
          /\ (Returns(f, "stop", "ok") /\ persona[bk[f].id].started)
                => Unmapped(bk[f].id)']_vars

(* C11: when a containerStop of a started container whose binding names    *)
(* no host port returns nil, the port allocated and mapped at start has    *)
(* no rule to the container left and no index entry naming it.             *)
C11_AllocatedPortUnmapped ==
    [][\A f \in Flows :
          (/\ Returns(f, "stop", "ok")
           /\ persona[bk[f].id].started
           /\ persona[bk[f].id].bindings = AnyPortConfig)
          => /\ \A r \in nat' : r.ip # endpointAddress(bk[f].id)
             /\ \A p \in DOMAIN containerByPort' :
                    containerByPort'[p] # bk[f].id]_vars

(* Container id is Running, its VM powered on, and holds the host port of  *)
(* its binding b: the rule to its endpoint and the index entry.            *)
holdsPort(id, b) ==
    /\ IsRunning(id) /\ cont[id].state = StateRunning
    /\ [proto |-> b.proto, hport |-> b.hport,
        ip |-> endpointAddress(id), cport |-> b.cport] \in nat
    /\ containerByPort[b.hport] = id

(* The bindings of c2 whose host port c3 binds as well.                    *)
sharedBindings(c2, c3) ==
    { b \in bindingsOf(c2) : \E b3 \in bindingsOf(c3) : b3.hport = b.hport }

(* The mapping step of the containerStart of flow f is taken.              *)
MapStep(f) == bk[f].pc = "map" /\ bk'[f].pc # "map"

(* C12: when containerStart of c3 reaches its mapping step while another   *)
(* container c2 is Running and holds a host port that c3 binds too, the    *)
(* start returns an error, c3 does not become Running, and the rule and    *)
(* index entry of c2 for that port stay as they are.                       *)
C12_RunningOwnerKeepsPort ==
    [][\A f \in Flows, c2 \in Containers :
          \A b \in sharedBindings(c2, bk[f].id) :
              (MapStep(f) /\ c2 # bk[f].id /\ holdsPort(c2, b))
              => /\ bk'[f].pc = "done" /\ bk'[f].ret = "error"
                 /\ cont'[bk[f].id].state = cont[bk[f].id].state
                 /\ holdsPort(c2, b)']_vars

(* The index owner of the host port cleanupPortBindings of flow f looks    *)
(* at next ("" when the port has no entry).                                *)
cleanupOwner(f) ==
    IF bk[f].pc = "cleanup" /\ Head(bk[f].todo) \in DOMAIN containerByPort
    THEN containerByPort[Head(bk[f].todo)] ELSE ""

(* No binding of id on host port hp has a rule to id or an index entry     *)
(* left.                                                                   *)
portReclaimed(id, hp) ==
    /\ containerByPort[hp] # id
    /\ \A b \in bindingsOf(id) :
          b.hport = hp =>
              \A r \in rulesFor(nat, b.proto, b.hport) :
                  r.ip # endpointAddress(id)

(* C13: cleanupPortBindings goes on to reclaim a requested host port whose *)
(* index owner is another container that has been removed from the cache,  *)
(* and when it has unmapped the ports of an owner found not running        *)
(* without an error, no mapping of that owner is left on the port.         *)
C13_StalePortReclaimed ==
    [][\A f \in Flows :
          /\ (/\ bk[f].pc = "cleanup" /\ bk'[f] # bk[f]
              /\ cleanupOwner(f) \notin {"", bk[f].id}
              /\ ~persona[cleanupOwner(f)].known)
             => bk'[f].pc = "cleanup_unmap"
          /\ (/\ bk[f].pc = "cleanup_unmap"
              /\ bk'[f].pc \in {"cleanup", "map"}
              /\ bk[f].victim # bk[f].id)
             => \A v \in {bk[f].victim}, hp \in {Head(bk[f].todo)} :
                    portReclaimed(v, hp)']_vars

(* The index names a Running container, its VM powered on, as the owner    *)
(* of host port hp.                                                        *)
ownerRunning(hp) ==
    /\ containerByPort[hp] # ""
    /\ IsRunning(containerByPort[hp])
    /\ cont[containerByPort[hp]].state = StateRunning

(* C14: the unmapPorts of a cleanupPortBindings leaves the index entry     *)
(* and the rules of every host port alone whose index owner is Running    *)
(* when it runs.                                                           *)
C14_CleanupSparesRunning ==
    [][\A f \in Flows, hp \in DOMAIN containerByPort :
          (/\ bk[f].pc = "cleanup_unmap" /\ bk'[f].pc # "cleanup_unmap"
           /\ ownerRunning(hp))
          => /\ containerByPort'[hp] = containerByPort[hp]
             /\ \A r \in nat : r.hport = hp => r \in nat']_vars

C16_UnmapIdempotent ==
    [][\A f \in Flows :
         /\ (bk[f].pc = "unmapped" /\ bk'[f].pc = "done")
            => /\ bk'[f].ret = "ok"
               /\ bk'[f].todo = bk[f].todo
               /\ nat' = nat
               /\ \A b \in bindingsOf(bk[f].id) :
                     containerByPort'[b.hport] = ""
         /\ (bk[f].pc = "idle" /\ bk'[f].pc = "unmapped")
            => \A b \in bindingsOf(bk'[f].id) :
                  containerByPort'[b.hport] = ""]_vars

(* Both calls have returned nil for c1 with two bindings; the first one    *)
(* called UnmapPort for both.                                              *)
C16_Witness ==
    \E f \in Flows :
       /\ bk[f].op = "unmap" /\ bk[f].pc = "done" /\ bk[f].ret = "ok"
       /\ bk[f].id = "c1" /\ Len(bk[f].todo) = 2
       /\ Cardinality(bindingsOf("c1")) = 2

(* C17: when mapPorts fails during containerStart, then at the return of   *)
(* containerStart no binding of the container has a rule to its endpoint   *)
(* or an index entry naming it.                                            *)
C17_FailedMapRolledBack ==
    [][\A f \in Flows, o \in PortMaps, k \in FailPoints :
         (StartMap(f, TRUE, o, k) /\ Returns(f, "start", "error"))
         => \A id \in {bk[f].id} : Unmapped(id)']_vars

(* C18: when Commit fails in containerStart after the bind and mapPorts    *)
(* succeeded, and the NAT facility reports no fault, then at the return of *)
(* containerStart no binding of the container has a rule to its endpoint   *)
(* or an index entry naming it, and the container is not bound; and every  *)
(* error return of containerStart after the bind leaves the container not  *)
(* bound.                                                                  *)
C18_CommitFailureUndone ==
    [][\A f \in Flows :
         /\ \A o \in PortMaps :
              (ContainerStartReturn(f, o, 0) /\ Returns(f, "start", "error"))
              => \A id \in {bk[f].id} : Unmapped(id)' /\ ~bound'[id]
         /\ (Returns(f, "start", "error")
             /\ bk[f].pc \in {"cleanup", "cleanup_unmap", "map", "commit"})
            => ~bound'[bk[f].id]]_vars

(* C19: Remove of a container whose state is Running returns               *)
(* RemovePowerError at once, makes no call to the infrastructure, and      *)
(* leaves the VM, the container's state and its cache entry as they were.  *)
C19_RemoveRunningRefused ==
    [][\A f \in Flows, id \in Containers :
         (RemoveBegin(f, id) /\ cont[id].state = StateRunning)
         => /\ fl'[f].pc = "done" /\ fl'[f].ret = "RemovePowerError"
            /\ fl'[f].ops = <<>>
            /\ vms' = vms
            /\ cont'[id] = cont[id]]_vars

(* A Remove of the Running c1 has returned RemovePowerError.               *)
C19_Witness ==
    \E f \in Flows :
       /\ fl[f].pc = "done" /\ fl[f].ret = "RemovePowerError"
       /\ fl[f].h.id = "c1"
       /\ cont["c1"].cached /\ cont["c1"].state = StateRunning

DiagramEdges ==
    { <<StateCreating, StateCreated>>, <<StateCreated, StateStarting>>,
      <<StateStarting, StateRunning>>, <<StateRunning, StateStopping>>,
      <<StateStopping, StateStopped>>, <<StateStopped, StateRemoving>>,
      <<StateRemoving, StateRemoved>>, <<StateRunning, StateSuspending>>,
      <<StateSuspending, StateSuspended>> }

(* A step changes the state of the cached container id.                    *)
StateChanged(id) ==
    cont[id].cached /\ cont'[id].cached /\ cont'[id].state # cont[id].state

InCommit(f) == fl[f].pc \notin {"idle", "ready", "done"}

InReconfigureLoop(f) == fl[f].pc \in {"reconf", "reconf_refresh"}

(* C22: when every infrastructure call returns and only finitely many      *)
(* reconfigure calls are answered with a concurrent-modification fault,    *)
(* every Commit returns; and the reconfigure loop is left only by a        *)
(* reconfigure the infrastructure accepted or by Commit returning the      *)
(* error of another fault.                                                 *)
C22_CommitReturns ==
    /\ \A f \in {1} : InCommit(f) ~> Done(f)
    /\ [][\A f \in {1} :
            (InReconfigureLoop(f) /\ ~InReconfigureLoop(f)')
            => \/ /\ fl'[f].pc = phaseAfter("p_reconf")
                  /\ vms'["c1"].cv = vms["c1"].cv + 1
               \/ Done(f)' /\ fl'[f].failed = "reconfigure"]_vars

(* A Commit has returned nil after a reconfigure that was retried.         *)
C22_Witness ==
    /\ Done(1) /\ fl[1].ret = "ok"
    /\ Len(fl[1].stamps) >= 2

(* The exposed ports and the alias map of the live Endpoint.               *)
liveView ==
    [ports |-> endpoints.ports[endpoints.ep["e"].ports],
     aliases |-> endpoints.aliases[endpoints.ep["e"].aliases]]

(* C23: an addPort or addAlias on the copy leaves the exposed ports and    *)
(* the alias map of the live Endpoint as they were.                        *)
C23_CopyIsolatesLive ==
    [][(\/ \E p \in ExposedPorts : AddPort("other", p)
        \/ \E con \in Containers \cup {""}, a \in AliasNames \cup {""} :
              AddAlias("other", con, a))
       => liveView' = liveView]_vars

(* The aliases registered on Endpoint r.                                   *)
aliasesOf(r) ==
    UNION { { getAliases(endpoints, r, c)[i] :
                i \in 1..Len(getAliases(endpoints, r, c)) } :
            c \in Containers }

(* C24: for every alias registered on an Endpoint, scopedName is           *)
(* <scope>:<alias> exactly when the alias is for the Endpoint's own        *)
(* container, and <scope>:<container>:<alias> when it is for another one.  *)
C24_ScopedNameByOwner ==
    \A r \in EndpointRefs :
       endpoints.ep[r].made =>
          \A al \in aliasesOf(r) :
             scopedName(endpoints, al) =
                IF al.Container = endpoints.ep[al.ep].container
                THEN <<endpoints.ep[al.ep].scope, al.Name>>
                ELSE <<endpoints.ep[al.ep].scope,
                       endpoints.ep[al.ep].container, al.Name>>

(* The (container, name) pair is registered on Endpoint r.                 *)
hasAlias(n, r, con, a) ==
    \E i \in 1..Len(getAliases(n, r, con)) :
       getAliases(n, r, con)[i].Name = a

(* C25: addAlias for a (container, name) pair that is present returns the  *)
(* alias that is there, reports it as present and leaves the alias map     *)
(* unchanged; and no list of aliases ever holds a name twice or an alias   *)
(* of another container.                                                   *)
C25_AddAliasIdempotent ==
    [][/\ \A r \in EndpointRefs, con \in Containers \cup {""},
            a \in AliasNames :
            (AddAlias(r, con, a) /\ hasAlias(endpoints, r, con, a))
            => /\ endpoints'.present
               /\ endpoints'.alias \in aliasesOf(r)
               /\ endpoints'.alias.Name = a
               /\ endpoints'.aliases = endpoints.aliases
       /\ \A m \in 1..Len(endpoints'.aliases), c \in Containers :
            LET as == endpoints'.aliases[m][c]
            IN  \A i \in 1..Len(as), j \in 1..Len(as) :
                   /\ as[i].Container = c
                   /\ as[i].Name = as[j].Name => i = j]_vars

(* The last addAlias found the pair (c2, db) present on the live Endpoint, *)
(* which has two aliases for c2.                                           *)
C25_Witness ==
    /\ endpoints.present
    /\ endpoints.alias = [Name |-> "db", Container |-> "c2", ep |-> "e"]
    /\ Len(getAliases(endpoints, "e", "c2")) = 2

(* C26: a Container built from a containerBase is Running when the VM was  *)
(* seen powered on, Stopped when it was seen powered off and a session     *)
(* was ever started, Created when it was seen powered off and none was,    *)
(* Suspended when it was seen suspended, and Created when there is no      *)
(* runtime snapshot.                                                       *)
C26_StateFromPower ==
    observed.built =>
       LET power == observed.power
           state == observed.state
           started == \E i \in 1..Len(observed.sessions) :
                         observed.sessions[i] # ""
       IN  /\ power = PoweredOn => state = StateRunning
           /\ power = PoweredOff /\ started => state = StateStopped
           /\ power = PoweredOff /\ ~started => state = StateCreated
           /\ power = Suspended => state = StateSuspended
           /\ power = NilRuntime => state = StateCreated

(* A powered-off VM whose last session was started is taken for Stopped.   *)
C26_Witness ==
    /\ observed.built
    /\ observed.power = PoweredOff
    /\ observed.sessions = <<"", "started">>
    /\ observed.state = StateStopped

(* A step that takes a ContainerCreate request up to its validation.       *)
CreateRequested == create.pc = "idle" /\ create' # create

(* The request is turned down before any handle: it has returned an error, *)
(* no handle was made or committed and the cache is as it was.             *)
CreateRejected ==
    /\ create'.pc = "done"
    /\ create'.ret \notin {"", "ok"}
    /\ create'.handles = 0
    /\ ~create'.committed
    /\ persona' = persona

(* C27: a request with a binding that names a host-port range, or a host   *)
(* IP other than 0.0.0.0 or the address of the external interface, is      *)
(* turned down before any handle is made; a binding with host IP 0.0.0.0   *)
(* or the external address and one host port is not turned down for its    *)
(* host IP or port.  A range names two different ports.                    *)
C27_RangeOrForeignIPRejected ==
    [][CreateRequested =>
         LET pbs == create'.config.pbs
             bad(pb) == \/ /\ Len(pb.HostPort) = 2
                           /\ pb.HostPort[1] # pb.HostPort[2]
                        \/ pb.HostIP \notin {"", "0.0.0.0", ExternalIP}
         IN  /\ (\E i \in 1..Len(pbs) : bad(pbs[i])) => CreateRejected
             /\ (\A i \in 1..Len(pbs) : ~bad(pbs[i]))
                   => create'.ret \notin {ErrHostIP, ErrRange}]_vars

(* Flow g holds the lock of Container id: Remove takes it on entry and     *)
(* keeps it until it returns.                                              *)
lockHeldBy(g, id) == fl[g].locked /\ fl[g].h.id = id

(* C28: every change of a Container's state is made by a flow that holds   *)
(* the Container's lock; so while a flow holds the lock, the state is      *)
(* changed by a step of that flow only.                                    *)
C28_StateChangesUnderLock ==
    [][\A id \in Containers :
         StateChanged(id) =>
            \A g \in Flows : lockHeldBy(g, id) => fl'[g] # fl[g]]_vars

(* The positions of a Commit between its steps, among them the waits for   *)
(* the create-VM task, the power-off, the property refreshes, the          *)
(* reconfigure and the power-on.                                           *)
CommitPcs ==
    {"create", "p_stop", "stop", "stop_refresh", "p_reconf", "reconf",
     "reconf_refresh", "p_start", "start"}

(* C29: a Commit that is under way, and so one that waits for an           *)
(* infrastructure operation, does not hold the lock of its Container: the  *)
(* lock is taken and released within the step that publishes the           *)
(* refreshed snapshot.                                                     *)
C29_CommitWaitsUnlocked ==
    \A f \in Flows :
       fl[f].pc \in CommitPcs => ~lockHeldBy(f, fl[f].h.id)

(* While the Commit of flow 1 waits for the power-on of c1, the Remove of  *)
(* flow 2 has taken the lock of c1.                                        *)
C29_Witness ==
    /\ fl[1].pc = "start"
    /\ fl[1].h.id = "c1"
    /\ lockHeldBy(2, "c1")
    /\ ~lockHeldBy(1, "c1")

(* C30: every non-creation Commit that has returned, whatever it           *)
(* returned, has refreshed the cache entry from the Handle exactly once,   *)
(* and a creation Commit never.                                            *)
C30_RefreshExactlyOnce ==
    \A f \in Flows :
       Done(f) => fl[f].refreshed = IF fl[f].creation THEN 0 ELSE 1

(* C31: when a non-creation Commit has returned success, the snapshot of   *)
(* the cache entry (backing VM, power state, change version) is the final  *)
(* snapshot of the Handle, with what Commit read again after a stop or in  *)
(* the reconfigure loop.                                                   *)
C31_CacheHoldsHandleSnapshot ==
    \A f \in Flows :
       (Done(f) /\ ~fl[f].creation /\ fl[f].ret = "ok" /\ fl[f].refreshed = 1)
       => LET c == cont[fl[f].h.id]
          IN  /\ c.cached
              /\ c.vm = fl[f].h.vm
              /\ c.power = fl[f].h.power
              /\ c.cv = fl[f].h.cv

(* C32: when Remove returns an error other than NotFound, the container    *)
(* is in the cache with the state it had when Remove was called.           *)
C32_RemoveErrorRestoresState ==
    [][\A f \in Flows :
         /\ (fl[f].pc \in RemovePcs /\ Done(f)'
               /\ fl'[f].ret \notin {"ok", "NotFoundError"})
            => /\ cont'[fl[f].h.id].cached
               /\ cont'[fl[f].h.id].state = fl[f].existingState
         /\ (fl[f].pc \in {"idle", "done"} /\ fl'[f] # fl[f] /\ Done(f)'
               /\ fl'[f].ret = "RemovePowerError")
            => cont'[fl'[f].h.id] = cont[fl'[f].h.id]]_vars

(* C33: RefreshFromHandle puts the snapshot of the Handle into the cache   *)
(* entry when the entry has no configuration or the change versions are    *)
(* equal, and leaves the entry as it is when they differ; it never changes *)
(* the state or the subscriptions.                                         *)
C33_RefreshOnlyOnEqualVersion ==
    [][\A f \in Flows :
         RefreshFromHandleCall(f) =>
            LET c == cont[fl[f].h.id]
                d == cont'[fl[f].h.id]
                h == fl[f].h
            IN  /\ (c.cv = NilConfig \/ h.cv = c.cv)
                      => d.vm = h.vm /\ d.power = h.power /\ d.cv = h.cv
                /\ (c.cv # NilConfig /\ h.cv # c.cv) => d = c
                /\ d.state = c.state
                /\ d.newStateEvents = c.newStateEvents
                /\ d.cached]_vars

(* A Handle with version 0 and a powered-off snapshot has been offered to  *)
(* the cache entry with version 1, which still shows powered on.           *)
C33_Witness ==
    /\ fl[1].refreshed = 1
    /\ fl[1].h.cv = 0
    /\ fl[1].h.power = PoweredOff
    /\ cont["c1"].cv = 1
    /\ cont["c1"].power = PoweredOn
    /\ cont["c1"].newStateEvents[StateStarting] = 1

(* C34: a Commit of a non-creation Handle that finds no cache entry for    *)
(* its container, a Remove having completed since the Handle was made,     *)
(* returns an error and has issued no power operation.                     *)
C34_CommitAfterRemoveFails ==
    \A f \in Flows :
       (Done(f) /\ fl[f].h.vm /\ ~fl[f].creation /\ fl[f].cnil)
       => /\ fl[f].ret \notin {"ok", "panic"}
          /\ ~Has(fl[f].ops, "stop")
          /\ ~Has(fl[f].ops, "start")

(* Flow f has returned from a Commit to target t on c1 whose power         *)
(* operation op it issued, with result r.                                  *)
PowerCommitDone(f, t, op, r) ==
    /\ Done(f)
    /\ fl[f].h.vm
    /\ fl[f].h.id = "c1"
    /\ fl[f].h.target = t
    /\ Has(fl[f].ops, op)
    /\ fl[f].ret = r

(* C35: when two Commits on one container with the same target have both  *)
(* returned, one with its power operation done and the other with its      *)
(* power operation failed, the cached state is the target.  The Commits    *)
(* ran at the same time: one of them found the container in the            *)
(* transitional state the other had set.                                   *)
C35_FailedCommitKeepsState ==
    \A f, g \in Flows :
       /\ (PowerCommitDone(f, StateStopped, "stop", "ok")
             /\ PowerCommitDone(g, StateStopped, "stop", "stop")
             /\ StateStopping \in {fl[f].finalState, fl[g].finalState})
          => cont["c1"].state = StateStopped
       /\ (PowerCommitDone(f, StateRunning, "start", "ok")
             /\ PowerCommitDone(g, StateRunning, "start", "start")
             /\ StateStarting \in {fl[f].finalState, fl[g].finalState})
          => cont["c1"].state = StateRunning
(* C36: of two creation Commits that carry the same container ID at most   *)
(* one issues a create-VM call and at most one returns success, and the    *)
(* ID never has more than one VM created for it.                           *)
CreationCommit(f) == fl[f].creation /\ fl[f].h.id = "c1"

IssuedCreate(f) == \E i \in 1..Len(fl[f].ops) : fl[f].ops[i] = "create"

C36_OneCreationPerID ==
    /\ \A f, g \in Flows :
          (f # g /\ CreationCommit(f) /\ CreationCommit(g))
          => /\ ~(IssuedCreate(f) /\ IssuedCreate(g))
             /\ ~(Done(f) /\ Done(g) /\ fl[f].ret = "ok" /\ fl[g].ret = "ok")
    /\ vms["c1"].made <= 1

(* C37: an unmapPorts call made with the bindings of container X (by       *)
(* containerStop and the rollback of containerStart for their own          *)
(* container, by cleanupPortBindings for the owner it found not running)   *)
(* removes a NAT rule or an index entry of a host port only if the index   *)
(* names X as the owner of that port.                                      *)
UnmapsFor(f) ==
    IF bk[f].pc = "cleanup_unmap" THEN bk[f].victim ELSE bk[f].id

C37_UnmapOnlyOwnPorts ==
    [][\A f \in Flows :
          bk'[f] # bk[f]
          => /\ \A p \in DOMAIN containerByPort :
                   (containerByPort[p] # "" /\ containerByPort'[p] = "")
                   => containerByPort[p] = UnmapsFor(f)
             /\ \A r \in nat \ nat' :
                   containerByPort[r.hport] = UnmapsFor(f)]_vars

(* C38: in every state a NAT rule is installed exactly when the index has  *)
(* an entry for the rule's host port, and the entry names the container    *)
(* the rule forwards to: no rule without an entry, no entry without a      *)
(* rule.                                                                   *)
C38_RulesMatchIndex ==
    /\ \A r \in nat : containerByPort[r.hport] = r.ip
    /\ \A p \in DOMAIN containerByPort :
          containerByPort[p] # ""
          => \E r \in nat : r.hport = p /\ r.ip = containerByPort[p]

(* C39: of the containerStart calls of two containers that bind the same   *)
(* host port 8083, with nothing stopped meanwhile, at most one container   *)
(* is started with success, and a container that was started with success  *)
(* keeps the NAT rule and the index entry of the port.                     *)
StartedContainers == { c \in Containers : persona[c].started }

C39_OneStartOwnsPort ==
    /\ Cardinality(StartedContainers) <= 1
    /\ \A c \in StartedContainers :
          /\ containerByPort[8083] = c
          /\ \E r \in nat : r.hport = 8083 /\ r.ip = c

(* C40: when containerStop has returned an error for a container that was  *)
(* started and whose VM is still powered on, every binding of the          *)
(* container has its NAT rule and the index names the container as the     *)
(* owner of the host port.                                                 *)
HasMappings(id) ==
    \A seq \in persona[id].bindings : \A i \in 1..Len(seq) :
       /\ containerByPort[seq[i].hport] = id
       /\ \E r \in nat : /\ r.hport = seq[i].hport /\ r.proto = seq[i].proto
                          /\ r.ip = endpointAddress(id)

C40_FailedStopKeepsMappings ==
    \A f \in Flows :
       (/\ bk[f].pc = "done" /\ bk[f].op = "stop" /\ bk[f].ret = "error"
        /\ persona[bk[f].id].started /\ IsRunning(bk[f].id))
       => HasMappings(bk[f].id)

============================================================================
